---- MODULE Spec2Model ----
(***************************************************************************)
(* Verification model of the Slack backup engine (src/main.py).            *)
(*                                                                         *)
(* Python strings are modelled as sequences of Unicode code points, so     *)
(* that sanitising, float parsing, date formatting and the ordering of ids *)
(* are computed the way the code computes them.  Python dicts are          *)
(* functions whose DOMAIN is the set of keys present.                      *)
(***************************************************************************)
EXTENDS Integers, Sequences, FiniteSets, TLC

(***************************************************************************)
(* Bounds of the model.                                                    *)
(***************************************************************************)
MaxConvs == 2
MaxMsgs == 3
MaxMeta == 2
MaxAttempts == 3
MaxName == 3
MaxPages == 3

(***************************************************************************)
(* String literals used by the code, as code points.                       *)
(***************************************************************************)
\* 'unnamed_channel'
UNNAMED_CHANNEL == <<117,110,110,97,109,101,100,95,99,104,97,110,110,101,108>>
\* "unknown-date"
UNKNOWN_DATE == <<117,110,107,110,111,119,110,45,100,97,116,101>>

(***************************************************************************)
(* Generic helpers standing for Python built-ins.                          *)
(***************************************************************************)
Has(d, k) == k \in DOMAIN d

Range(s) == {s[i] : i \in 1..Len(s)}

RECURSIVE SeqSum(_)
SeqSum(s) == IF s = <<>> THEN 0 ELSE Head(s) + SeqSum(Tail(s))

\* str < str: lexicographic on code points
RECURSIVE StrLess(_, _)
StrLess(a, b) ==
    IF b = <<>> THEN FALSE
    ELSE IF a = <<>> THEN TRUE
    ELSE IF Head(a) # Head(b) THEN Head(a) < Head(b)
    ELSE StrLess(Tail(a), Tail(b))

\* sequences over S of length lo..hi
SeqsBetween(S, lo, hi) == UNION {[1..n -> S] : n \in lo..hi}

(***************************************************************************)
(* sanitize (src/main.py:21-49)                                            *)
(***************************************************************************)
\* forbidden_chars = r'[/\\:*?"<>|\x00-\x1f\x7f]'
ForbiddenChars == {47, 92, 58, 42, 63, 34, 60, 62, 124} \cup (0..31) \cup {127}

\* re.sub(forbidden_chars, '_', name)
ReplaceForbidden(name) ==
    [i \in 1..Len(name) |-> IF name[i] \in ForbiddenChars THEN 95 ELSE name[i]]

\* re.sub(r'_+', '_', s)
\* (computed on the two halves of s: a run of underscores across the middle
\* leaves one underscore at the end of the left part and one at the start of
\* the right part)
RECURSIVE CollapseUnderscores(_)
CollapseUnderscores(s) ==
    IF Len(s) < 2 THEN s
    ELSE LET half == Len(s) \div 2
             left == CollapseUnderscores(SubSeq(s, 1, half))
             right == CollapseUnderscores(SubSeq(s, half + 1, Len(s)))
         IN  IF left[Len(left)] = 95 /\ right[1] = 95 THEN left \o Tail(right)
             ELSE left \o right

RECURSIVE LStrip(_, _)
LStrip(s, chars) ==
    IF s # <<>> /\ Head(s) \in chars THEN LStrip(Tail(s), chars) ELSE s

RECURSIVE RStrip(_, _)
RStrip(s, chars) ==
    IF s # <<>> /\ s[Len(s)] \in chars
    THEN RStrip(SubSeq(s, 1, Len(s) - 1), chars) ELSE s

\* len(c.encode('utf-8')) of one code point
Utf8Width(c) == IF c < 128 THEN 1 ELSE IF c < 2048 THEN 2 ELSE IF c < 65536 THEN 3 ELSE 4

\* len(s.encode('utf-8')): the code points of each width, times the width
Utf8Len(s) ==
    SeqSum([w \in 1..4 |-> w * Cardinality({i \in 1..Len(s) : Utf8Width(s[i]) = w})])

\* while len(s.encode('utf-8')) > 200 and s: s = s[:-1]
RECURSIVE TruncateBytes(_)
TruncateBytes(s) ==
    IF Utf8Len(s) > 200 /\ s # <<>>
    THEN TruncateBytes(SubSeq(s, 1, Len(s) - 1)) ELSE s

sanitize(name) ==
    LET stripped == RStrip(LStrip(CollapseUnderscores(ReplaceForbidden(name)),
                                  {32, 95}), {32, 95})
        cut == IF Utf8Len(stripped) > 200
               THEN RStrip(TruncateBytes(stripped), {95}) ELSE stripped
    IN  IF stripped = <<>> THEN UNNAMED_CHANNEL
        ELSE IF cut = <<>> THEN UNNAMED_CHANNEL ELSE cut

(***************************************************************************)
(* timestamp_to_date (src/main.py:51-60)                                   *)
(***************************************************************************)
IsDigit(c) == c \in 48..57

RECURSIVE DigitsValue(_)
DigitsValue(s) ==
    IF s = <<>> THEN 0 ELSE 10 * DigitsValue(SubSeq(s, 1, Len(s) - 1)) + (s[Len(s)] - 48)

\* float(ts) for the plain decimal literals digits[.digits] and .digits; every
\* other text in the model's pools is one Python's float() rejects as well.
\* ok = FALSE is ValueError.  The value is whole + 0.frac, kept exact.
ParseFloat(ts) ==
    LET dots == {i \in 1..Len(ts) : ts[i] = 46}
        dot == IF dots = {} THEN Len(ts) + 1 ELSE CHOOSE i \in dots : TRUE
        whole == SubSeq(ts, 1, dot - 1)
        frac == SubSeq(ts, dot + 1, Len(ts))
        ok == /\ Cardinality(dots) <= 1
              /\ \A i \in 1..Len(ts) : IsDigit(ts[i]) \/ ts[i] = 46
              /\ Len(whole) + Len(frac) > 0
    IN  [ok |-> ok,
         whole |-> IF ok THEN DigitsValue(whole) ELSE 0,
         frac |-> IF ok THEN frac ELSE <<>>]

\* digit i of a fraction, zero padded
FracDigit(f, i) == IF i <= Len(f) THEN f[i] - 48 ELSE 0

RECURSIVE FracLess(_, _, _)
FracLess(f, g, i) ==
    IF i > Len(f) /\ i > Len(g) THEN FALSE
    ELSE IF FracDigit(f, i) # FracDigit(g, i) THEN FracDigit(f, i) < FracDigit(g, i)
    ELSE FracLess(f, g, i + 1)

\* float(a) < float(b), both parsed
FloatLess(a, b) ==
    \/ a.whole < b.whole
    \/ a.whole = b.whole /\ FracLess(a.frac, b.frac, 1)

TwoDigits(n) == <<48 + (n \div 10), 48 + (n % 10)>>

FourDigits(n) == TwoDigits(n \div 100) \o TwoDigits(n % 100)

\* datetime.fromtimestamp(t, tz=utc).strftime('%Y-%m-%d') for whole seconds t >= 0:
\* the proleptic Gregorian date of day t // 86400 after 1970-01-01
StrftimeDate(seconds) ==
    LET z == (seconds \div 86400) + 719468
        era == z \div 146097
        doe == z - era * 146097
        yoe == (doe - (doe \div 1460) + (doe \div 36524) - (doe \div 146096)) \div 365
        doy == doe - (365 * yoe + (yoe \div 4) - (yoe \div 100))
        mp == (5 * doy + 2) \div 153
        d == doy - ((153 * mp + 2) \div 5) + 1
        m == IF mp < 10 THEN mp + 3 ELSE mp - 9
        y == yoe + era * 400 + (IF m <= 2 THEN 1 ELSE 0)
    IN  FourDigits(y) \o <<45>> \o TwoDigits(m) \o <<45>> \o TwoDigits(d)

timestamp_to_date(ts) ==
    LET f == ParseFloat(ts)
    IN  IF f.ok THEN StrftimeDate(f.whole) ELSE UNKNOWN_DATE

(***************************************************************************)
(* split_messages_by_date (src/main.py:62-78)                              *)
(***************************************************************************)
\* "if not ts: continue" keeps a message whose ts is present and not empty
TsTruthy(msg) == Has(msg, "ts") /\ msg["ts"] # <<>>

\* the keys of date_groups in dict (first insertion) order
RECURSIVE DateKeys(_, _)
DateKeys(messages, seen) ==
    IF messages = <<>> THEN <<>>
    ELSE LET msg == Head(messages)
             date_str == timestamp_to_date(msg["ts"])
         IN  IF ~TsTruthy(msg) THEN DateKeys(Tail(messages), seen)
             ELSE IF date_str \in seen THEN DateKeys(Tail(messages), seen)
             ELSE <<date_str>> \o DateKeys(Tail(messages), seen \cup {date_str})

\* date_groups[date_str] after the first loop: the messages in input order
DateGroup(messages, date_str) ==
    SelectSeq(messages, LAMBDA msg : TsTruthy(msg) /\ timestamp_to_date(msg["ts"]) = date_str)

\* the sort key float(x.get("ts", "0")) raises ValueError for some element
SortKeyRaises(msgs) == \E i \in 1..Len(msgs) : ~ParseFloat(msgs[i]["ts"]).ok

RECURSIVE InsertByTs(_, _)
InsertByTs(x, s) ==
    IF s = <<>> THEN <<x>>
    ELSE IF FloatLess(ParseFloat(x["ts"]), ParseFloat(s[Len(s)]["ts"]))
         THEN InsertByTs(x, SubSeq(s, 1, Len(s) - 1)) \o <<s[Len(s)]>>
         ELSE s \o <<x>>

\* list.sort(key=float ts): stable, ascending
RECURSIVE SortByTs(_)
SortByTs(msgs) ==
    IF msgs = <<>> THEN <<>>
    ELSE InsertByTs(msgs[Len(msgs)], SortByTs(SubSeq(msgs, 1, Len(msgs) - 1)))

\* The result: raised = TRUE when the ValueError of a sort key leaves the
\* function; otherwise groups is the returned dict, as the sequence of its
\* items [date, msgs] in dict order.
split_messages_by_date(messages) ==
    LET keys == DateKeys(messages, {})
        raises == \E i \in 1..Len(keys) : SortKeyRaises(DateGroup(messages, keys[i]))
    IN  [raised |-> raises,
         groups |-> IF raises THEN <<>>
                    ELSE [i \in 1..Len(keys) |->
                            [date |-> keys[i],
                             msgs |-> SortByTs(DateGroup(messages, keys[i]))]]]

(***************************************************************************)
(* merge_metadata (src/main.py:144-154)                                    *)
(***************************************************************************)
\* list(d.values()) of the dict built by "d[item[k]] = item" over items: one
\* entry per key, at the position of the key's first item, holding its last
RECURSIVE DictValues(_, _, _)
DictValues(items, k, seen) ==
    IF items = <<>> THEN <<>>
    ELSE LET key == Head(items)[k]
             same == SelectSeq(items, LAMBDA it : it[k] = key)
         IN  IF key \in seen THEN DictValues(Tail(items), k, seen)
             ELSE <<same[Len(same)]>> \o DictValues(Tail(items), k, seen \cup {key})

RECURSIVE InsertById(_, _)
InsertById(x, s) ==
    IF s = <<>> THEN <<x>>
    ELSE IF StrLess(x["id"], s[Len(s)]["id"])
         THEN InsertById(x, SubSeq(s, 1, Len(s) - 1)) \o <<s[Len(s)]>>
         ELSE s \o <<x>>

\* sorted(values, key=lambda x: x["id"])
RECURSIVE SortById(_)
SortById(items) ==
    IF items = <<>> THEN <<>>
    ELSE InsertById(items[Len(items)], SortById(SubSeq(items, 1, Len(items) - 1)))

\* variants of merge_metadata with a plausible slip each: no index by id,
\* the stored record kept on an id collision, no final sort
merge_metadata_append(existing_meta, new_meta) ==
    SortById(existing_meta \o new_meta)

merge_metadata_keep_existing(existing_meta, new_meta) ==
    SortById(DictValues(new_meta \o existing_meta, "id", {}))

merge_metadata_unsorted(existing_meta, new_meta) ==
    DictValues(existing_meta \o new_meta, "id", {})

\* variant that forgets what the file held
merge_metadata_new_only(existing_meta, new_meta) ==
    SortById(DictValues(new_meta, "id", {}))

merge_metadata(existing_meta, new_meta) ==
    SortById(DictValues(existing_meta \o new_meta, "id", {}))

(***************************************************************************)
(* Cursor pagination of the Web API and the collector                      *)
(* (src/main.py:178-220)                                                   *)
(***************************************************************************)
\* The server's answer to a request carrying cursor (0 = no cursor): page
\* cursor + 1 of pages, and the cursor of the following page (0 = none).
Respond(pages, cursor) ==
    [items |-> pages[cursor + 1],
     next_cursor |-> IF cursor + 1 < Len(pages) THEN cursor + 1 ELSE 0]

\* while True: resp = call(cursor); out.extend(items); cursor = next_cursor;
\* if not cursor: break
RECURSIVE FetchPages(_, _)
FetchPages(pages, cursor) ==
    LET resp == Respond(pages, cursor)
    IN  resp.items \o (IF resp.next_cursor = 0 THEN <<>>
                       ELSE FetchPages(pages, resp.next_cursor))

iter_history(hist_pages) == FetchPages(hist_pages, 0)

\* replies maps a parent ts to the pages of conversations.replies
fetch_thread(replies, parent_ts) ==
    IF parent_ts \in DOMAIN replies THEN FetchPages(replies[parent_ts], 0) ELSE <<>>

\* msg.get("thread_ts") == msg.get("ts") and msg.get("reply_count", 0) > 0
IsThreadRoot(msg) ==
    /\ IF Has(msg, "thread_ts") /\ Has(msg, "ts") THEN msg["thread_ts"] = msg["ts"]
       ELSE ~Has(msg, "thread_ts") /\ ~Has(msg, "ts")
    /\ Has(msg, "reply_count") /\ msg["reply_count"] > 0

\* what one history message contributes to out_msgs; KeyError (raised) on
\* msg["ts"] or m["ts"] of a message without ts
Expand(msg, replies) ==
    IF ~IsThreadRoot(msg) THEN [raised |-> FALSE, msgs |-> <<msg>>]
    ELSE IF ~Has(msg, "ts") THEN [raised |-> TRUE, msgs |-> <<>>]
    ELSE LET thread == fetch_thread(replies, msg["ts"])
         IN  IF \E i \in 1..Len(thread) : ~Has(thread[i], "ts")
             THEN [raised |-> TRUE, msgs |-> <<>>]
             ELSE [raised |-> FALSE,
                   msgs |-> <<msg>> \o SelectSeq(DictValues(thread, "ts", {}),
                                                LAMBDA m : m["ts"] # msg["ts"])]

RECURSIVE CollectFrom(_, _)
CollectFrom(history, replies) ==
    IF history = <<>> THEN [raised |-> FALSE, msgs |-> <<>>]
    ELSE LET first == Expand(Head(history), replies)
             rest == CollectFrom(Tail(history), replies)
         IN  IF first.raised \/ rest.raised THEN [raised |-> TRUE, msgs |-> <<>>]
             ELSE [raised |-> FALSE, msgs |-> first.msgs \o rest.msgs]

collect_messages(hist_pages, replies) == CollectFrom(iter_history(hist_pages), replies)

(***************************************************************************)
(* backoff_retry (src/main.py:80-89)                                       *)
(***************************************************************************)
\* int(s) of a header text: [sign] digits; ok = FALSE is ValueError
ParseInt(s) ==
    LET signed == s # <<>> /\ Head(s) \in {43, 45}
        digits == IF signed THEN Tail(s) ELSE s
        ok == digits # <<>> /\ \A i \in 1..Len(digits) : IsDigit(digits[i])
    IN  [ok |-> ok,
         val |-> IF ~ok THEN 0
                 ELSE IF signed /\ Head(s) = 45 THEN 0 - DigitsValue(digits)
                 ELSE DigitsValue(digits)]

\* variant that ignores the header
RetryAfterAlwaysDefault(headers) == ParseInt(<<53>>)

\* int(e.response.headers.get("Retry-After", "5"))
RetryAfterSeconds(headers) ==
    ParseInt(IF Has(headers, "Retry-After") THEN headers["Retry-After"] ELSE <<53>>)

\* variant that takes every error carrying a response for a rate limit
IsRateLimited_any_status(resp) == resp.kind = "error" /\ resp.has_response

\* e.response is not None and e.response.status_code == 429
IsRateLimited(resp) ==
    resp.kind = "error" /\ resp.has_response /\ resp.status_code = 429

(***************************************************************************)
(* SlackBackup helpers (src/main.py:132-295)                               *)
(***************************************************************************)
EmptyDict == [k \in {} |-> k]

MetadataTypes == <<"channels", "groups", "dms", "mpims">>

TruthyFlag(d, k) == Has(d, k) /\ d[k] = TRUE

\* a metadata file on disk: absent, or holding text that parses to data
\* (valid) or does not
load_existing_metadata(file) ==
    IF file.exists /\ file.valid THEN file.data ELSE <<>>

\* conv.get("name") or conv["id"]
NameOrId(conv) ==
    IF Has(conv, "name") /\ conv["name"] # <<>> THEN conv["name"] ELSE conv["id"]

\* variant that labels every kind by its name
conv_label_by_name(conv) == sanitize(NameOrId(conv))

conv_label(conv) ==
    IF TruthyFlag(conv, "is_im") THEN conv["id"] ELSE sanitize(NameOrId(conv))

get_members(member_pages) == FetchPages(member_pages, 0)

\* variant that gives every kind the keys of a channel
MetadataKeys_every_kind(conv) ==
    {"id", "members", "name"}
    \cup ({"created", "creator", "is_archived", "is_general", "topic", "purpose"}
          \cap DOMAIN conv)

\* the keys of the record _generate_metadata builds
MetadataKeys(conv) ==
    {"id", "members"}
    \cup (IF Has(conv, "created") /\ conv["created"] # 0 THEN {"created"} ELSE {})
    \cup (IF TruthyFlag(conv, "is_im") THEN {}
          ELSE {"name"}
               \cup (IF Has(conv, "creator") /\ conv["creator"] # <<>>
                     THEN {"creator"} ELSE {})
               \cup ({"is_archived", "is_general"} \cap DOMAIN conv)
               \cup (IF Has(conv, "topic") /\ DOMAIN conv["topic"] # {}
                     THEN {"topic"} ELSE {})
               \cup (IF Has(conv, "purpose") /\ DOMAIN conv["purpose"] # {}
                     THEN {"purpose"} ELSE {}))

\* variant that stores the members as returned
generate_metadata_members_as_returned(conv, label, members) ==
    [k \in MetadataKeys(conv) |->
        CASE k = "members" -> members
          [] k = "name" -> label
          [] OTHER -> conv[k]]

\* members is what get_members returned for the conversation
generate_metadata(conv, label, members) ==
    [k \in MetadataKeys(conv) |->
        CASE k = "members" ->
                 IF TruthyFlag(conv, "is_im") /\ Len(members) = 1
                 THEN <<members[1], members[1]>> ELSE members
          [] k = "name" -> label
          [] OTHER -> conv[k]]

\* variant that tests the private flag before the multi-party flag
MetadataKind_private_first(conv) ==
    IF TruthyFlag(conv, "is_im") THEN "dms"
    ELSE IF TruthyFlag(conv, "is_private") THEN "groups"
    ELSE IF TruthyFlag(conv, "is_mpim") THEN "mpims"
    ELSE "channels"

MetadataKind(conv) ==
    IF TruthyFlag(conv, "is_im") THEN "dms"
    ELSE IF TruthyFlag(conv, "is_mpim") THEN "mpims"
    ELSE IF TruthyFlag(conv, "is_private") THEN "groups"
    ELSE "channels"

\* variant with "if" for each "elif": the else branch belongs to the test
\* of is_private alone
classify_metadata_independent_ifs(conv, meta, lists) ==
    LET add(ls, k, on) == IF on THEN [ls EXCEPT ![k] = Append(@, meta)] ELSE ls
        dms == add(lists, "dms", TruthyFlag(conv, "is_im"))
        mpims == add(dms, "mpims", TruthyFlag(conv, "is_mpim"))
    IN  IF TruthyFlag(conv, "is_private") THEN add(mpims, "groups", TRUE)
        ELSE add(mpims, "channels", TRUE)

classify_metadata(conv, meta, lists) ==
    [lists EXCEPT ![MetadataKind(conv)] = Append(@, meta)]

\* variant without the early return, dumping the list it was given
date_groups_to_save_unguarded(msgs) ==
    IF msgs = <<>>
    THEN [raised |-> FALSE, groups |-> <<[date |-> UNKNOWN_DATE, msgs |-> <<>>]>>]
    ELSE split_messages_by_date(msgs)

\* _save_messages_by_date up to its loop (274-277): "if not messages: return",
\* else the items of split_messages_by_date(messages)
date_groups_to_save(msgs) ==
    IF msgs = <<>> THEN [raised |-> FALSE, groups |-> <<>>]
    ELSE split_messages_by_date(msgs)

\* variant that takes the existence of the directory for a backup
is_already_backed_up_dir_only(root, label) == label \in DOMAIN root

\* root maps the label of each existing conversation directory to its date
\* files (date -> content)
is_already_backed_up(root, label) ==
    IF label \notin DOMAIN root THEN FALSE
    ELSE DOMAIN root[label] # {}

(***************************************************************************)
(* add_tokens_to_files.py: add_token_to_url (47-67) with the str and       *)
(* urllib.parse operations it calls, on strings of code points below 128   *)
(***************************************************************************)
\* "files.slack.com", "token=", "token"
FILES_SLACK_COM == <<102, 105, 108, 101, 115, 46, 115, 108, 97, 99, 107, 46, 99, 111, 109>>
TOKEN_EQ == <<116, 111, 107, 101, 110, 61>>
TOKEN_KEY == <<116, 111, 107, 101, 110>>

\* sub in s
StrIn(sub, s) ==
    \E i \in 1..(Len(s) - Len(sub) + 1) : SubSeq(s, i, i + Len(sub) - 1) = sub

\* s.split(c, 1): the parts before and after the first c
SplitOnce(s, c) ==
    IF \E i \in 1..Len(s) : s[i] = c
    THEN LET i == CHOOSE i \in 1..Len(s) : s[i] = c /\ \A j \in 1..(i - 1) : s[j] # c
         IN  [found |-> TRUE, before |-> SubSeq(s, 1, i - 1),
              after |-> SubSeq(s, i + 1, Len(s))]
    ELSE [found |-> FALSE, before |-> s, after |-> <<>>]

\* s.split(c)
RECURSIVE StrSplit(_, _)
StrSplit(s, c) ==
    LET p == SplitOnce(s, c)
    IN  IF p.found THEN <<p.before>> \o StrSplit(p.after, c) ELSE <<s>>

\* c.join(pieces)
RECURSIVE JoinWith(_, _)
JoinWith(pieces, c) ==
    IF pieces = <<>> THEN <<>>
    ELSE IF Len(pieces) = 1 THEN pieces[1]
    ELSE pieces[1] \o <<c>> \o JoinWith(Tail(pieces), c)

IsAlpha(c) == c \in 65..90 \cup 97..122
Lower(c) == IF c \in 65..90 THEN c + 32 ELSE c
IsHex(c) == IsDigit(c) \/ c \in 65..70 \/ c \in 97..102
HexValue(c) == IF IsDigit(c) THEN c - 48 ELSE IF c \in 65..70 THEN c - 55 ELSE c - 87
HexDigit(n) == IF n < 10 THEN 48 + n ELSE 55 + n

\* urlsplit: what precedes the first ":" is the scheme when it starts with a
\* letter and is made of letters, digits, "+", "-", "."; it is lower-cased
LowerScheme(url) ==
    LET p == SplitOnce(url, 58)
    IN  IF /\ p.found /\ p.before # <<>> /\ IsAlpha(p.before[1])
           /\ \A i \in 1..Len(p.before) :
                 IsAlpha(p.before[i]) \/ IsDigit(p.before[i]) \/ p.before[i] \in {43, 45, 46}
        THEN [i \in 1..Len(p.before) |-> Lower(p.before[i])] \o <<58>> \o p.after
        ELSE url

\* urlparse(url): the fragment follows the first "#", the query the first "?"
\* before it; head is scheme://netloc/path;params, which urlunparse puts
\* together again as they were
urlparse(url) ==
    LET f == SplitOnce(LowerScheme(url), 35)
        q == SplitOnce(f.before, 63)
    IN  [head |-> q.before, query |-> q.after, fragment |-> f.after]

\* urlunparse(parts): an empty query or fragment is left out with its mark
urlunparse(parts) ==
    parts.head \o (IF parts.query = <<>> THEN <<>> ELSE <<63>> \o parts.query)
               \o (IF parts.fragment = <<>> THEN <<>> ELSE <<35>> \o parts.fragment)

\* unquote(s): %XX is the character of code XX
RECURSIVE unquote(_)
unquote(s) ==
    IF s = <<>> THEN <<>>
    ELSE IF s[1] = 37 /\ Len(s) >= 3 /\ IsHex(s[2]) /\ IsHex(s[3])
    THEN <<16 * HexValue(s[2]) + HexValue(s[3])>> \o unquote(SubSeq(s, 4, Len(s)))
    ELSE <<s[1]>> \o unquote(Tail(s))

\* s.replace('+', ' ')
PlusToSpace(s) == [i \in 1..Len(s) |-> IF s[i] = 43 THEN 32 ELSE s[i]]

\* the loop of parse_qsl over qs.split('&') with keep_blank_values=False and
\* strict_parsing=False: an empty piece, a piece without "=" and a piece
\* with an empty value are passed over
RECURSIVE PairsOf(_)
PairsOf(pieces) ==
    IF pieces = <<>> THEN <<>>
    ELSE LET nv == SplitOnce(Head(pieces), 61)
         IN  (IF Head(pieces) # <<>> /\ nv.found /\ nv.after # <<>>
              THEN << <<unquote(PlusToSpace(nv.before)), unquote(PlusToSpace(nv.after))>> >>
              ELSE <<>>) \o PairsOf(Tail(pieces))

parse_qsl(qs) == PairsOf(StrSplit(qs, 38))

\* the dict parse_qs builds from the pairs, as the sequence of its items
\* [name, values] in dict order (first occurrence of the name)
RECURSIVE GroupPairs(_, _)
GroupPairs(pairs, seen) ==
    IF pairs = <<>> THEN <<>>
    ELSE LET name == Head(pairs)[1]
             same == SelectSeq(pairs, LAMBDA p : p[1] = name)
         IN  IF name \in seen THEN GroupPairs(Tail(pairs), seen)
             ELSE <<[name |-> name, values |-> [i \in 1..Len(same) |-> same[i][2]]]>>
                  \o GroupPairs(Tail(pairs), seen \cup {name})

parse_qs(qs) == GroupPairs(parse_qsl(qs), {})

\* query_params[name] = values
SetItem(items, name, values) ==
    IF \E i \in 1..Len(items) : items[i].name = name
    THEN [i \in 1..Len(items) |->
            IF items[i].name = name THEN [name |-> name, values |-> values] ELSE items[i]]
    ELSE Append(items, [name |-> name, values |-> values])

\* quote_plus(s): letters, digits and "_.-~" stay, " " becomes "+", any other
\* character %XX
RECURSIVE quote_plus(_)
quote_plus(s) ==
    IF s = <<>> THEN <<>>
    ELSE (IF IsAlpha(s[1]) \/ IsDigit(s[1]) \/ s[1] \in {95, 46, 45, 126} THEN <<s[1]>>
          ELSE IF s[1] = 32 THEN <<43>>
          ELSE <<37, HexDigit(s[1] \div 16), HexDigit(s[1] % 16)>>)
         \o quote_plus(Tail(s))

RECURSIVE EncodedPairs(_)
EncodedPairs(items) ==
    IF items = <<>> THEN <<>>
    ELSE [i \in 1..Len(Head(items).values) |->
            quote_plus(Head(items).name) \o <<61>> \o quote_plus(Head(items).values[i])]
         \o EncodedPairs(Tail(items))

\* urlencode(query_params, doseq=True)
urlencode(items) == JoinWith(EncodedPairs(items), 38)

add_token_to_url(url, token) ==
    IF url = <<>> \/ ~StrIn(FILES_SLACK_COM, url) THEN url
    ELSE IF StrIn(TOKEN_EQ, url) THEN url
    ELSE LET parsed == urlparse(url)
             query_params == SetItem(parse_qs(parsed.query), TOKEN_KEY, <<token>>)
         IN  urlunparse([parsed EXCEPT !.query = urlencode(query_params)])

(***************************************************************************)
(* add_tokens_to_files.py: process_message (69-104) and process_json_file  *)
(* (106-137) on JSON values                                                *)
(***************************************************************************)
\* a JSON value whose type the code tests with isinstance: a dict, a list,
\* or something else (a string)
PyDict(d) == [py |-> "dict", d |-> d]
PyList(items) == [py |-> "list", items |-> items]
PyText(s) == [py |-> "str", s |-> s]

\* url_private, url_private_download and thumbnail_keys
UrlKeys == {"url_private", "url_private_download", "thumb_64", "thumb_80", "thumb_160",
            "thumb_360", "thumb_480", "thumb_720", "thumb_800", "thumb_960", "thumb_1024"}

\* the body of "for file_obj in message['files']" (75-102)
PatchFileObj(file_obj, token) ==
    IF file_obj.py # "dict" THEN file_obj
    ELSE PyDict([k \in DOMAIN file_obj.d |->
                    IF k \in UrlKeys THEN add_token_to_url(file_obj.d[k], token)
                    ELSE file_obj.d[k]])

\* process_message(message, token) for a dict message: the value returned
\* and the message as the call leaves it
process_message(message, token) ==
    IF "files" \in DOMAIN message.d /\ message.d["files"].py = "list"
    THEN LET files == message.d["files"].items
             patched == [i \in 1..Len(files) |-> PatchFileObj(files[i], token)]
         IN  [modified |-> patched # files,
              message |-> PyDict([message.d EXCEPT !["files"] = PyList(patched)])]
    ELSE [modified |-> FALSE, message |-> message]

\* process_json_file(file_path, token, dry_run): the count returned, whether
\* the file was written, and the file afterwards.  A file is its text: valid
\* JSON holding data, or not.
process_json_file(file, token, dry_run) ==
    IF ~file.valid \/ file.data.py # "list"
    THEN [count |-> 0, written |-> FALSE, file |-> file]
    ELSE LET data == file.data.items
             results == [i \in 1..Len(data) |->
                            IF data[i].py = "dict" THEN process_message(data[i], token)
                            ELSE [modified |-> FALSE, message |-> data[i]]]
             modified_count == Cardinality({i \in 1..Len(data) : results[i].modified})
             written == modified_count > 0 /\ ~dry_run
         IN  [count |-> modified_count, written |-> written,
              file |-> IF written
                       THEN [valid |-> TRUE,
                             data |-> PyList([i \in 1..Len(data) |-> results[i].message])]
                       ELSE file]

(***************************************************************************)
(* State                                                                   *)
(***************************************************************************)
VARIABLES
    \* the backup run (SlackBackup.run) and its environment
    slack,            \* the upstream workspace: what each endpoint returns
    outdir,           \* conversation directories: label -> (date -> messages)
    meta_files,       \* channels.json, groups.json, dms.json, mpims.json
    force,            \* self.force
    user_map,         \* self.user_map
    pc,               \* position of the run
    run_no,           \* 1: first run, 2: the run started after it ended
    conversations,    \* run(): conversations
    idx,              \* index of the loop over conversations
    metadata_lists,   \* run(): metadata_lists
    processed_count,  \* run(): processed_count
    skipped_count,    \* run(): skipped_count
    messages,         \* _process_conversation(): messages
    date_groups,      \* _save_messages_by_date(): items still to be written
    merged_metadata,  \* _save_metadata(): merged_metadata
    widx,             \* _save_metadata(): index of the file being written
    api_log,          \* the (endpoint, channel) pairs requested in this run
    processed,        \* the loop indexes processed (not skipped) in this run
    prev,             \* how the previous run ended and what it left on disk
    conversation_id,  \* self.conversation_id (<<>>: not given)
    api_error,        \* the SlackApiError raised by a Web API call and not yet
                      \* disposed of (retried on, or ended the process)
    faults,           \* the kind of failure the environment of the run produces
    warnings,         \* the date files this run reported as not written ([WARN])
    killed_at,        \* the position of the run when it was killed
    \* split_messages_by_date called on its own
    sp_pc, sp_messages, sp_result,
    \* merge_metadata applied to a stored list
    mg_existing, mg_new, mg_stored, mg_applied,
    \* _collect_messages called on its own
    co_pc, co_history, co_replies, co_result,
    \* backoff_retry
    bk_pc, bk_request, bk_calls, bk_responses, bk_sleeps, bk_wait, bk_result,
    \* the metadata of one conversation: labelled, generated, classified, saved
    md_pc, md_conv, md_member_pages, md_prior, md_lists, md_label, md_meta, md_saved,
    \* sanitize called on its own
    sn_pc, sn_name, sn_result,
    \* one paginated fetch, request by request
    pg_pc, pg_endpoint, pg_server, pg_cursor, pg_requests, pg_responses, pg_out,
    \* add_tokens_to_files.py: process_message and process_json_file
    tk_pc,            \* position of the call of process_json_file
    tk_token,         \* token
    tk_dry_run,       \* dry_run
    tk_file,          \* the JSON file as it was before the call
    tk_disk,          \* the JSON file on disk
    tk_result,        \* what process_json_file returned, and whether it wrote
    tk_messages,      \* a message in memory: as read, and after each
                      \* process_message applied to it
    tk_flags,         \* what those calls of process_message returned
    \* the Web API calls of one run, each answered as the server likes
    lv_pc,            \* "call", "sleep" (in backoff_retry), "save", "done", "raised"
    lv_stage,         \* the Web API method the run is fetching from
    lv_total,         \* the number of conversations of the workspace
    lv_idx,           \* index of the loop over conversations
    lv_cursor,        \* cursor of the fetch in progress
    lv_hist_next,     \* iter_history suspended at a yield: the cursor of its
                      \* next request
    lv_answer,        \* the last answer of the server
    lv_wait,          \* backoff_retry: wait
    lv_attempts,      \* 429 answers to the request in progress (counted up
                      \* to MaxAttempts)
    lv_slept,         \* the run has slept on a 429
    lv_written,       \* _save_metadata has written the metadata files
    \* check_slack_status.py: run_all_checks and the end of main
    ck_pc,            \* "call", "returned", "exit_0", "exit_1", "raised"
    ck_answers,       \* what each of the four API calls does
    ck_results        \* what run_all_checks returned

runVars == <<slack, outdir, meta_files, force, user_map, pc, run_no, conversations,
             idx, metadata_lists, processed_count, skipped_count, messages,
             date_groups, merged_metadata, widx, api_log, processed, prev,
             conversation_id, api_error, faults, warnings, killed_at>>
splitVars == <<sp_pc, sp_messages, sp_result>>
mergeVars == <<mg_existing, mg_new, mg_stored, mg_applied>>
collectVars == <<co_pc, co_history, co_replies, co_result>>
backoffVars == <<bk_pc, bk_request, bk_calls, bk_responses, bk_sleeps, bk_wait, bk_result>>
metaVars == <<md_pc, md_conv, md_member_pages, md_prior, md_lists, md_label, md_meta,
              md_saved>>
sanVars == <<sn_pc, sn_name, sn_result>>
pageVars == <<pg_pc, pg_endpoint, pg_server, pg_cursor, pg_requests, pg_responses,
              pg_out>>
tokVars == <<tk_pc, tk_token, tk_dry_run, tk_file, tk_disk, tk_result, tk_messages,
             tk_flags>>
liveVars == <<lv_pc, lv_stage, lv_total, lv_idx, lv_cursor, lv_hist_next, lv_answer,
              lv_wait, lv_attempts, lv_slept, lv_written>>
chkVars == <<ck_pc, ck_answers, ck_results>>
pureVars == <<splitVars, mergeVars, collectVars, backoffVars, metaVars, sanVars,
              pageVars, tokVars, liveVars, chkVars>>
vars == <<runVars, pureVars>>

(***************************************************************************)
(* The upstream workspaces the runs are checked against                    *)
(***************************************************************************)
U1 == <<85, 49>>
U2 == <<85, 50>>

\* {"id": "C1", "name": "a/b", ...}: a public channel; label a_b
ChanA == [id |-> <<67, 49>>, name |-> <<97, 47, 98>>, is_im |-> FALSE,
          is_mpim |-> FALSE, is_private |-> FALSE, created |-> 1, creator |-> U1,
          is_archived |-> FALSE, is_general |-> TRUE]
\* {"id": "G1", "name": "a:b", ...}: a private channel; label a_b as well
GroupB == [id |-> <<71, 49>>, name |-> <<97, 58, 98>>, is_im |-> FALSE,
           is_mpim |-> FALSE, is_private |-> TRUE, created |-> 2]
\* {"id": "D1", "is_im": true}: a self direct message
DmC == [id |-> <<68, 49>>, is_im |-> TRUE, created |-> 3]

ConvPool == {ChanA, GroupB, DmC}

MemberPages(id) ==
    CASE id = ChanA.id -> << <<U1>>, <<U2>> >>
      [] id = GroupB.id -> << <<U1, U2>> >>
      [] OTHER -> << <<U1>> >>

\* "3.0", "86400.25", "86400.5", "abc"
TsDay1 == <<51, 46, 48>>
TsDay2a == <<56, 54, 52, 48, 48, 46, 50, 53>>
TsDay2b == <<56, 54, 52, 48, 48, 46, 53>>
TsBad == <<97, 98, 99>>

Msg(ts, text) == [ts |-> ts, text |-> text]
ThreadRoot == [ts |-> TsDay1, thread_ts |-> TsDay1, reply_count |-> 1, text |-> 3]
ThreadReply == [ts |-> TsDay2a, thread_ts |-> TsDay1, text |-> 4]

\* histories, as the pages of conversations.history
HistEmpty == << <<>> >>
HistOne == << <<Msg(TsDay2b, 1)>> >>
HistThread == << <<ThreadRoot>>, <<Msg(TsDay2b, 2)>> >>
HistBad == << <<Msg(TsBad, 5)>> >>
HistPool == {HistEmpty, HistOne, HistThread, HistBad}

\* conversations.replies of the one thread, by parent ts
ThreadReplies == (TsDay1 :> << <<ThreadRoot, ThreadReply>> >>)

\* headers of a 429: Retry-After "2", "0", absent, "abc", "-1"
HeaderPool == {[x \in {"Retry-After"} |-> <<50>>], [x \in {"Retry-After"} |-> <<48>>],
               EmptyDict, [x \in {"Retry-After"} |-> TsBad],
               [x \in {"Retry-After"} |-> <<45, 49>>]}

\* the SlackApiError a call may raise: a 429 with those headers, a 500 that
\* carries Retry-After, an error whose response is None
ApiErrorPool ==
    {[kind |-> "error", has_response |-> TRUE, status_code |-> 429, headers |-> h] :
        h \in HeaderPool}
    \cup {[kind |-> "error", has_response |-> TRUE, status_code |-> 500,
           headers |-> [x \in {"Retry-After"} |-> <<50>>]],
          [kind |-> "error", has_response |-> FALSE, status_code |-> 0,
           headers |-> EmptyDict]}

\* lists of distinct conversations, in enumeration order
ConvLists ==
    {cs \in SeqsBetween(ConvPool, 1, MaxConvs) :
        \A i, j \in 1..Len(cs) : i # j => cs[i] # cs[j]}

Upstream(cs, hist) ==
    [users_pages |-> << <<[id |-> U1]>>, <<[id |-> U2]>> >>,
     conv_pages |-> [i \in 1..Len(cs) |-> <<cs[i]>>],
     info |-> [id \in DOMAIN hist |->
                 cs[CHOOSE i \in 1..Len(cs) : cs[i]["id"] = id]],
     history |-> hist,
     replies |-> [id \in DOMAIN hist |-> ThreadReplies],
     members |-> [id \in DOMAIN hist |-> MemberPages(id)]]

(***************************************************************************)
(* SlackBackup.run (src/main.py:364-393), one action per step              *)
(***************************************************************************)
EmptyLists == [k \in Range(MetadataTypes) |-> <<>>]
AbsentFile == [exists |-> FALSE, valid |-> FALSE, data |-> <<>>]
NoError == [endpoint |-> "none", channel |-> <<>>, response |-> [kind |-> "none"]]
NoPrev == [outcome |-> "none", force |-> FALSE, conversation_id |-> <<>>,
           collecting |-> <<>>,
           outdir |-> EmptyDict,
           meta_files |-> [k \in Range(MetadataTypes) |-> AbsentFile]]

\* the in-memory state of a process that has just been started
FreshProcess ==
    /\ pc = "load_users"
    /\ user_map = EmptyDict
    /\ conversations = <<>>
    /\ idx = 0
    /\ metadata_lists = EmptyLists
    /\ processed_count = 0
    /\ skipped_count = 0
    /\ messages = <<>>
    /\ date_groups = <<>>
    /\ merged_metadata = EmptyLists
    /\ widx = 0
    /\ api_log = {}
    /\ processed = <<>>
    /\ api_error = NoError
    /\ warnings = {}
    /\ killed_at = "none"

\* an id conversations.info does not resolve: "X9"
UnknownId == <<88, 57>>

\* What goes wrong around the runs of one behaviour, one kind at most: nothing;
\* the process is killed; Web API calls raise SlackApiError; writing a date
\* file raises OSError; a metadata file is damaged between two runs.
FaultKinds == {"none", "kill", "api", "disk", "damage"}

\* the text a json.dump that failed half-way has left in a date file
Truncated == <<[truncated |-> TRUE]>>

InitRun ==
    /\ faults \in FaultKinds
    /\ \E cs \in ConvLists :
         \E hist \in [{cs[i]["id"] : i \in 1..Len(cs)} -> HistPool] :
            /\ slack = Upstream(cs, hist)
            /\ conversation_id \in
                  CASE faults = "none" -> {<<>>, cs[1]["id"]}
                    [] faults = "api" -> {<<>>, cs[1]["id"], UnknownId}
                    [] OTHER -> {<<>>}
    /\ force \in BOOLEAN
    /\ outdir = EmptyDict
    /\ meta_files = [k \in Range(MetadataTypes) |-> AbsentFile]
    /\ run_no = 1
    /\ prev = NoPrev
    /\ FreshProcess

IdleRun ==
    /\ faults = "none"
    /\ slack = Upstream(<<>>, EmptyDict)
    /\ conversation_id = <<>>
    /\ force = FALSE
    /\ outdir = EmptyDict
    /\ meta_files = [k \in Range(MetadataTypes) |-> AbsentFile]
    /\ run_no = 0
    /\ prev = NoPrev
    /\ FreshProcess

Running == pc \notin {"done", "killed", "crashed", "api_error", "exit_1"}

CurrentConv == conversations[idx]
CurrentLabel == conv_label(CurrentConv)

\* load_users (105-113)
LoadUsers ==
    /\ pc = "load_users"
    /\ LET users == FetchPages(slack.users_pages, 0)
       IN  user_map' = [u \in {users[i]["id"] : i \in 1..Len(users)} |->
                           LET is == {i \in 1..Len(users) : users[i]["id"] = u}
                           IN  users[CHOOSE i \in is : \A j \in is : j <= i]]
    /\ pc' = "get_conversations"
    /\ UNCHANGED <<pureVars, faults, killed_at, warnings, conversation_id, api_error, slack, outdir, meta_files, force, run_no, conversations, idx,
                   metadata_lists, processed_count, skipped_count, messages,
                   date_groups, merged_metadata, widx, api_log, processed, prev>>

\* _get_conversations without a conversation id: list_conversations (115-125),
\* then the accumulators of run (373-382)
GetConversations ==
    /\ pc = "get_conversations"
    /\ conversation_id = <<>>
    /\ conversations' = FetchPages(slack.conv_pages, 0)
    /\ metadata_lists' = EmptyLists
    /\ processed_count' = 0
    /\ skipped_count' = 0
    /\ idx' = 1
    /\ pc' = "loop"
    /\ UNCHANGED <<pureVars, faults, killed_at, warnings, conversation_id, api_error, slack, outdir, meta_files, force, user_map, run_no, messages,
                   date_groups, merged_metadata, widx, api_log, processed, prev>>

\* _get_conversations with a conversation id (352-360): get_channel_info
\* (127-130) through backoff_retry (80-89), the server answering resp.  A 429
\* is slept on and the request issued again; int() or time.sleep() raising
\* ValueError on its Retry-After leaves run; any other SlackApiError is caught
\* and ends the process by sys.exit(1).
GetChannelInfo(resp) ==
    /\ pc = "get_conversations"
    /\ conversation_id # <<>>
    /\ IF resp.kind = "ok" THEN conversation_id \in DOMAIN slack.info
       ELSE faults = "api" /\ run_no = 1
    /\ api_log' = api_log \cup {<<"conversations.info", conversation_id>>}
    /\ IF resp.kind = "ok"
       THEN /\ conversations' = <<slack.info[conversation_id]>>
            /\ metadata_lists' = EmptyLists
            /\ processed_count' = 0
            /\ skipped_count' = 0
            /\ idx' = 1
            /\ pc' = "loop"
            /\ api_error' = NoError
       ELSE /\ api_error' = [endpoint |-> "conversations.info",
                             channel |-> conversation_id, response |-> resp]
            /\ pc' = IF IsRateLimited(resp)
                     THEN LET wait == RetryAfterSeconds(resp.headers)
                          IN  IF wait.ok /\ wait.val >= 0 THEN "get_conversations"
                              ELSE "crashed"
                     ELSE "exit_1"
            /\ UNCHANGED <<conversations, metadata_lists, processed_count,
                           skipped_count, idx>>
    /\ UNCHANGED <<pureVars, faults, killed_at, warnings, conversation_id, slack, outdir, meta_files, force, user_map,
                   run_no, messages, date_groups, merged_metadata, widx, processed, prev>>

\* _process_conversation, the skip branch (303-309)
SkipConversation ==
    /\ pc = "loop"
    /\ idx <= Len(conversations)
    /\ ~force /\ is_already_backed_up(outdir, CurrentLabel)
    /\ skipped_count' = skipped_count + 1
    /\ idx' = idx + 1
    /\ UNCHANGED <<pureVars, faults, killed_at, warnings, conversation_id, api_error, slack, outdir, meta_files, force, user_map, pc, run_no,
                   conversations, metadata_lists, processed_count, messages,
                   date_groups, merged_metadata, widx, api_log, processed, prev>>

\* _process_conversation, not skipped: conversation_dir.mkdir (311)
MakeConversationDir ==
    /\ pc = "loop"
    /\ idx <= Len(conversations)
    /\ ~(~force /\ is_already_backed_up(outdir, CurrentLabel))
    /\ outdir' = IF CurrentLabel \in DOMAIN outdir THEN outdir
                 ELSE outdir @@ (CurrentLabel :> EmptyDict)
    /\ pc' = "collect"
    /\ UNCHANGED <<pureVars, faults, killed_at, warnings, conversation_id, api_error, slack, meta_files, force, user_map, run_no, conversations, idx,
                   metadata_lists, processed_count, skipped_count, messages,
                   date_groups, merged_metadata, widx, api_log, processed, prev>>

\* the end of _process_conversation (322) and of the loop body (384-385)
ConversationProcessed ==
    /\ processed_count' = processed_count + 1
    /\ processed' = Append(processed, idx)
    /\ idx' = idx + 1
    /\ pc' = "loop"

\* messages = self._collect_messages(channel_id) (314); a KeyError leaves run
CollectMessages ==
    /\ pc = "collect"
    /\ LET id == CurrentConv["id"]
           got == collect_messages(slack.history[id], slack.replies[id])
       IN  /\ api_log' = api_log \cup {<<"conversations.history", id>>}
                \cup {<<"conversations.replies", id>> :
                        i \in {i \in 1..Len(iter_history(slack.history[id])) :
                                 IsThreadRoot(iter_history(slack.history[id])[i])}}
           /\ IF got.raised
              THEN pc' = "crashed" /\ UNCHANGED messages
              ELSE pc' = "metadata" /\ messages' = got.msgs
    /\ UNCHANGED <<pureVars, faults, killed_at, warnings, conversation_id, api_error, slack, outdir, meta_files, force, user_map, run_no, conversations,
                   idx, metadata_lists, processed_count, skipped_count, date_groups,
                   merged_metadata, widx, processed, prev>>

\* _collect_messages (314) when conversations.history or conversations.replies
\* raises a SlackApiError that is no 429: backoff_retry re-raises it, and
\* neither _collect_messages, _process_conversation nor run catches it
CollectMessagesApiError(endpoint, resp) ==
    /\ pc = "collect"
    /\ faults = "api" /\ run_no = 1
    /\ ~IsRateLimited(resp)
    /\ LET id == CurrentConv["id"]
           history == iter_history(slack.history[id])
       IN  /\ \/ endpoint = "conversations.history"
              \/ /\ endpoint = "conversations.replies"
                 /\ \E i \in 1..Len(history) : IsThreadRoot(history[i])
           /\ api_log' = api_log \cup {<<"conversations.history", id>>, <<endpoint, id>>}
           /\ api_error' = [endpoint |-> endpoint, channel |-> id, response |-> resp]
    /\ pc' = "api_error"
    /\ UNCHANGED <<pureVars, faults, killed_at, warnings, conversation_id, slack, outdir, meta_files, force,
                   user_map, run_no, conversations, idx, metadata_lists, processed_count,
                   skipped_count, messages, date_groups, merged_metadata, widx,
                   processed, prev>>

\* _generate_metadata (317) when conversations.members raises a SlackApiError
\* that is no 429: it leaves get_members, _generate_metadata,
\* _process_conversation and run uncaught
GenerateMetadataApiError(resp) ==
    /\ pc = "metadata"
    /\ faults = "api" /\ run_no = 1
    /\ ~IsRateLimited(resp)
    /\ LET id == CurrentConv["id"]
       IN  /\ api_log' = api_log \cup {<<"conversations.members", id>>}
           /\ api_error' = [endpoint |-> "conversations.members", channel |-> id,
                            response |-> resp]
    /\ pc' = "api_error"
    /\ UNCHANGED <<pureVars, faults, killed_at, warnings, conversation_id, slack, outdir, meta_files, force,
                   user_map, run_no, conversations, idx, metadata_lists, processed_count,
                   skipped_count, messages, date_groups, merged_metadata, widx,
                   processed, prev>>

\* _generate_metadata and _classify_metadata (317-318), then the part of
\* _save_messages_by_date before the first file is written (274-277): an empty
\* list returns at once, a ValueError of split_messages_by_date leaves run
ClassifyAndSplit ==
    /\ pc = "metadata"
    /\ LET id == CurrentConv["id"]
           meta == generate_metadata(CurrentConv, CurrentLabel,
                                     get_members(slack.members[id]))
           split == date_groups_to_save(messages)
       IN  /\ api_log' = api_log \cup {<<"conversations.members", id>>}
           /\ metadata_lists' = classify_metadata(CurrentConv, meta, metadata_lists)
           /\ IF ~split.raised /\ split.groups = <<>>
              THEN /\ ConversationProcessed
                   /\ UNCHANGED date_groups
              ELSE IF split.raised
              THEN /\ pc' = "crashed"
                   /\ UNCHANGED <<date_groups, processed_count, processed, idx>>
              ELSE /\ pc' = "write_dates"
                   /\ date_groups' = split.groups
                   /\ UNCHANGED <<processed_count, processed, idx>>
    /\ UNCHANGED <<pureVars, faults, killed_at, warnings, conversation_id, api_error, slack, outdir, meta_files, force, user_map, run_no, conversations,
                   skipped_count, messages, merged_metadata, widx, prev>>

\* variant that returns from _save_messages_by_date after the first file
WriteDateFile_first_only ==
    /\ pc = "write_dates"
    /\ LET item == Head(date_groups)
       IN  outdir' = [outdir EXCEPT ![CurrentLabel] = (item.date :> item.msgs) @@ @]
    /\ date_groups' = Tail(date_groups)
    /\ ConversationProcessed
    /\ UNCHANGED <<pureVars, faults, killed_at, warnings, conversation_id, api_error, slack, meta_files, force, user_map, run_no, conversations,
                   metadata_lists, skipped_count, messages, merged_metadata, widx,
                   api_log, prev>>

\* variant that opens the file in append mode
WriteDateFile_append ==
    /\ pc = "write_dates"
    /\ LET item == Head(date_groups)
           old == IF item.date \in DOMAIN outdir[CurrentLabel]
                  THEN outdir[CurrentLabel][item.date] ELSE <<>>
       IN  outdir' = [outdir EXCEPT ![CurrentLabel] = (item.date :> old \o item.msgs) @@ @]
    /\ date_groups' = Tail(date_groups)
    /\ IF Tail(date_groups) = <<>>
       THEN ConversationProcessed
       ELSE UNCHANGED <<processed_count, processed, idx, pc>>
    /\ UNCHANGED <<pureVars, faults, killed_at, warnings, conversation_id, api_error, slack, meta_files, force, user_map, run_no, conversations,
                   metadata_lists, skipped_count, messages, merged_metadata, widx,
                   api_log, prev>>

\* one iteration of the loop of _save_messages_by_date (278-282): the file of
\* one date is written whole
WriteDateFile ==
    /\ pc = "write_dates"
    /\ LET item == Head(date_groups)
       IN  outdir' = [outdir EXCEPT ![CurrentLabel] = (item.date :> item.msgs) @@ @]
    /\ date_groups' = Tail(date_groups)
    /\ IF Tail(date_groups) = <<>>
       THEN ConversationProcessed
       ELSE UNCHANGED <<processed_count, processed, idx, pc>>
    /\ UNCHANGED <<pureVars, faults, killed_at, warnings, conversation_id, api_error, slack, meta_files, force, user_map, run_no, conversations,
                   metadata_lists, skipped_count, messages, merged_metadata, widx,
                   api_log, prev>>

\* one iteration of that loop when open or json.dump raises (280-284): the
\* exception is caught and reported, and the loop goes on.  When open raised,
\* the file is as it was; when json.dump raised, open has emptied the file and
\* part of the text is in it.  One write of the first run fails at most.
\* (First the variant without the try: the exception leaves run.)
WriteDateFileFails_fatal(outcome) ==
    /\ pc = "write_dates"
    /\ faults = "disk"
    /\ run_no = 1
    /\ warnings = {}
    /\ LET item == Head(date_groups)
       IN  outdir' = IF outcome = "open_raised" THEN outdir
                     ELSE [outdir EXCEPT ![CurrentLabel] = (item.date :> Truncated) @@ @]
    /\ warnings' = warnings \cup {<<CurrentLabel, Head(date_groups).date>>}
    /\ pc' = "crashed"
    /\ UNCHANGED <<pureVars, faults, killed_at, conversation_id, api_error, slack, meta_files, force, user_map, run_no, conversations,
                   metadata_lists, skipped_count, messages, merged_metadata, widx,
                   api_log, prev, date_groups, processed_count, processed, idx>>

WriteDateFileFails(outcome) ==
    /\ pc = "write_dates"
    /\ faults = "disk"
    /\ run_no = 1
    /\ warnings = {}
    /\ LET item == Head(date_groups)
       IN  outdir' = IF outcome = "open_raised" THEN outdir
                     ELSE [outdir EXCEPT ![CurrentLabel] = (item.date :> Truncated) @@ @]
    /\ warnings' = warnings \cup {<<CurrentLabel, Head(date_groups).date>>}
    /\ date_groups' = Tail(date_groups)
    /\ IF Tail(date_groups) = <<>>
       THEN ConversationProcessed
       ELSE UNCHANGED <<processed_count, processed, idx, pc>>
    /\ UNCHANGED <<pureVars, faults, killed_at, conversation_id, api_error, slack, meta_files, force, user_map, run_no, conversations,
                   metadata_lists, skipped_count, messages, merged_metadata, widx,
                   api_log, prev>>

\* variant whose load_existing_metadata has no try: a file that does not
\* parse raises JSONDecodeError out of run
MergeMetadata_strict ==
    /\ pc = "loop"
    /\ idx > Len(conversations)
    /\ IF \E k \in Range(MetadataTypes) : meta_files[k].exists /\ ~meta_files[k].valid
       THEN pc' = "crashed" /\ UNCHANGED <<merged_metadata, widx>>
       ELSE /\ merged_metadata' =
                  [k \in Range(MetadataTypes) |->
                      merge_metadata(load_existing_metadata(meta_files[k]),
                                     metadata_lists[k])]
            /\ widx' = 1
            /\ pc' = "write_metadata"
    /\ UNCHANGED <<pureVars, faults, killed_at, warnings, conversation_id, api_error, slack, outdir, meta_files, force, user_map, run_no, conversations,
                   idx, metadata_lists, processed_count, skipped_count, messages,
                   date_groups, api_log, processed, prev>>

\* the loop of run has ended; _save_metadata loads and merges (327-340)
MergeMetadata ==
    /\ pc = "loop"
    /\ idx > Len(conversations)
    /\ merged_metadata' =
          [k \in Range(MetadataTypes) |->
              merge_metadata(load_existing_metadata(meta_files[k]), metadata_lists[k])]
    /\ widx' = 1
    /\ pc' = "write_metadata"
    /\ UNCHANGED <<pureVars, faults, killed_at, warnings, conversation_id, api_error, slack, outdir, meta_files, force, user_map, run_no, conversations,
                   idx, metadata_lists, processed_count, skipped_count, messages,
                   date_groups, api_log, processed, prev>>

\* one iteration of the writing loop of _save_metadata (343-348)
WriteMetadataFile ==
    /\ pc = "write_metadata"
    /\ LET k == MetadataTypes[widx]
       IN  meta_files' = [meta_files EXCEPT ![k] =
                [exists |-> TRUE, valid |-> TRUE, data |-> merged_metadata[k]]]
    /\ widx' = widx + 1
    /\ pc' = IF widx = Len(MetadataTypes) THEN "done" ELSE "write_metadata"
    /\ UNCHANGED <<pureVars, faults, killed_at, warnings, conversation_id, api_error, slack, outdir, force, user_map, run_no, conversations, idx,
                   metadata_lists, processed_count, skipped_count, messages,
                   date_groups, merged_metadata, api_log, processed, prev>>

\* the process is killed from outside; what is on disk stays
Kill ==
    /\ Running
    /\ faults = "kill"
    /\ run_no = 1
    /\ pc' = "killed"
    /\ killed_at' = pc
    /\ UNCHANGED <<pureVars, faults, warnings, conversation_id, api_error, slack, outdir, meta_files, force, user_map, run_no, conversations,
                   idx, metadata_lists, processed_count, skipped_count, messages,
                   date_groups, merged_metadata, widx, api_log, processed, prev>>

\* between two runs one of the metadata files the first run wrote is deleted,
\* or overwritten by text that is no JSON
DamageMetadataFile(k, how) ==
    /\ pc = "done"
    /\ run_no = 1
    /\ faults = "damage"
    /\ \A j \in Range(MetadataTypes) : meta_files[j].exists /\ meta_files[j].valid
    /\ meta_files[k].data # <<>>
    /\ meta_files' = [meta_files EXCEPT ![k] =
                         IF how = "deleted" THEN AbsentFile
                         ELSE [exists |-> TRUE, valid |-> FALSE, data |-> <<>>]]
    /\ UNCHANGED <<pureVars, faults, killed_at, warnings, conversation_id, api_error, slack, outdir, force, user_map, pc, run_no,
                   conversations, idx, metadata_lists, processed_count, skipped_count,
                   messages, date_groups, merged_metadata, widx, api_log, processed,
                   prev>>

\* the id of the conversation whose messages or members the run was fetching
\* (314-317) when it was killed or a Web API call raised, <<>> if none
Collecting ==
    IF \/ pc = "killed" /\ killed_at \in {"collect", "metadata"}
       \/ pc = "api_error"
    THEN CurrentConv["id"] ELSE <<>>

\* the backup is started again on the same output directory and upstream,
\* with or without --force and, where nothing else goes wrong, for all
\* conversations or for the first one alone
StartNextRun ==
    /\ ~Running
    /\ run_no = 1
    /\ faults # "disk"
    /\ prev' = [outcome |-> pc, force |-> force, conversation_id |-> conversation_id,
                collecting |-> Collecting,
                outdir |-> outdir, meta_files |-> meta_files]
    /\ run_no' = run_no + 1
    /\ force' \in BOOLEAN
    /\ conversation_id' \in IF faults = "none" THEN {<<>>, slack.conv_pages[1][1]["id"]}
                             ELSE {conversation_id}
    /\ pc' = "load_users"
    /\ user_map' = EmptyDict
    /\ conversations' = <<>>
    /\ idx' = 0
    /\ metadata_lists' = EmptyLists
    /\ processed_count' = 0
    /\ skipped_count' = 0
    /\ messages' = <<>>
    /\ date_groups' = <<>>
    /\ merged_metadata' = EmptyLists
    /\ widx' = 0
    /\ api_log' = {}
    /\ processed' = <<>>
    /\ api_error' = NoError
    /\ warnings' = {}
    /\ killed_at' = "none"
    /\ UNCHANGED <<pureVars, faults, slack, outdir, meta_files>>

(***************************************************************************)
(* split_messages_by_date applied to the lists over a pool of messages     *)
(***************************************************************************)
\* ts valid on two dates (with a tie), not a number, absent, empty
SplitMsgPool == {Msg(TsDay1, 1), Msg(TsDay2a, 1), Msg(TsDay2b, 1), Msg(TsDay2b, 2),
                 Msg(TsBad, 1), [text |-> 1], Msg(<<>>, 1)}

NoSplit == [raised |-> FALSE, groups |-> <<>>]

InitSplit ==
    /\ sp_pc = "call"
    /\ sp_messages \in SeqsBetween(SplitMsgPool, 0, MaxMsgs)
    /\ sp_result = NoSplit

IdleSplit == sp_pc = "idle" /\ sp_messages = <<>> /\ sp_result = NoSplit

SplitCall ==
    /\ sp_pc = "call"
    /\ sp_result' = split_messages_by_date(sp_messages)
    /\ sp_pc' = IF sp_result'.raised THEN "raised" ELSE "returned"
    /\ UNCHANGED <<sp_messages, runVars, tokVars, liveVars, chkVars, metaVars, sanVars, pageVars, mergeVars, collectVars, backoffVars>>

NextSplit == SplitCall

(***************************************************************************)
(* merge_metadata applied twice to a stored list                           *)
(***************************************************************************)
\* ids "C2" and "C10"; two different records of C2
MetaPool == {[id |-> <<67, 50>>, members |-> <<U1>>],
             [id |-> <<67, 50>>, members |-> <<U1, U2>>],
             [id |-> <<67, 49, 48>>, members |-> <<U1>>]}

MetaLists == SeqsBetween(MetaPool, 0, MaxMeta)

InitMerge ==
    /\ mg_existing \in MetaLists
    /\ mg_new \in [{"A", "B"} -> MetaLists]
    /\ mg_stored = <<mg_existing>>
    /\ mg_applied = <<>>

IdleMerge ==
    /\ mg_existing = <<>>
    /\ mg_new = [n \in {"A", "B"} |-> <<>>]
    /\ mg_stored = <<>>
    /\ mg_applied = <<>>

\* the stored list is replaced by its merge with new set n; mg_stored keeps
\* the successive stored lists
MergeApply(n) ==
    /\ mg_stored # <<>>
    /\ Len(mg_applied) < 2
    /\ mg_stored' = Append(mg_stored, merge_metadata(mg_stored[Len(mg_stored)], mg_new[n]))
    /\ mg_applied' = Append(mg_applied, n)
    /\ UNCHANGED <<mg_existing, mg_new, runVars, tokVars, liveVars, chkVars, metaVars, sanVars, pageVars, splitVars, collectVars, backoffVars>>

NextMerge == \E n \in {"A", "B"} : MergeApply(n)

(***************************************************************************)
(* _collect_messages applied to the histories of a conversation with one   *)
(* thread                                                                  *)
(***************************************************************************)
\* what conversations.history may list: the thread root, its reply (a reply
\* broadcast to the channel is listed in the history too), plain messages
CollectMsgPool == {ThreadRoot, ThreadReply, Msg(TsDay2b, 1), Msg(<<56, 54, 52, 48, 49>>, 2),
                   [text |-> 1]}

\* the server lists every message once
CollectHistories ==
    {h \in SeqsBetween(CollectMsgPool, 0, MaxMsgs) :
        \A i, j \in 1..Len(h) : i # j => h[i] # h[j]}

\* a reply that conversations.replies returns without a ts field
TsLessReply == [text |-> 9, thread_ts |-> TsDay1]

NoCollect == [raised |-> FALSE, msgs |-> <<>>]

InitCollect ==
    /\ co_pc = "call"
    /\ \E h \in CollectHistories :
         co_history = IF h = <<>> THEN << <<>> >> ELSE [i \in 1..Len(h) |-> <<h[i]>>]
    /\ co_replies \in {ThreadReplies, (TsDay1 :> << <<ThreadRoot>>, <<ThreadReply>> >>),
                        (TsDay1 :> << <<ThreadRoot, TsLessReply>> >>)}
    /\ co_result = NoCollect

IdleCollect ==
    /\ co_pc = "idle"
    /\ co_history = <<>>
    /\ co_replies = EmptyDict
    /\ co_result = NoCollect

CollectCall ==
    /\ co_pc = "call"
    /\ co_result' = collect_messages(co_history, co_replies)
    /\ co_pc' = IF co_result'.raised THEN "raised" ELSE "returned"
    /\ UNCHANGED <<co_history, co_replies, runVars, tokVars, liveVars, chkVars, metaVars, sanVars, pageVars, splitVars, mergeVars, backoffVars>>

NextCollect == CollectCall

(***************************************************************************)
(* backoff_retry against a server that answers each call as it likes       *)
(***************************************************************************)
\* what one call of func does: return data, or raise SlackApiError whose
\* response is None (has_response = FALSE) or carries a status and headers
ResponsePool == {[kind |-> "ok", data |-> d] : d \in {1, 2}} \cup ApiErrorPool

RequestPool == {[func |-> "conversations_history", cursor |-> 0],
                [func |-> "conversations_history", cursor |-> 1],
                [func |-> "users_list", cursor |-> 0]}

NoResult == [kind |-> "none"]

InitBackoff ==
    /\ bk_pc = "call"
    /\ bk_request \in RequestPool
    /\ bk_calls = <<>>
    /\ bk_responses = <<>>
    /\ bk_sleeps = <<>>
    /\ bk_wait = 0
    /\ bk_result = NoResult

IdleBackoff ==
    /\ bk_pc = "idle"
    /\ bk_request = [func |-> "none", cursor |-> 0]
    /\ bk_calls = <<>>
    /\ bk_responses = <<>>
    /\ bk_sleeps = <<>>
    /\ bk_wait = 0
    /\ bk_result = NoResult

\* func(*args, **kwargs) with the caller's arguments (83), the server answering
\* resp, and the except clause up to the sleep (84-86, 89)
BackoffCall(resp) ==
    /\ bk_pc = "call"
    /\ Len(bk_calls) < MaxAttempts
    /\ bk_calls' = Append(bk_calls, bk_request)
    /\ bk_responses' = Append(bk_responses, resp)
    /\ IF resp.kind = "ok"
       THEN /\ bk_pc' = "returned"
            /\ bk_result' = [kind |-> "return", value |-> resp.data]
            /\ UNCHANGED bk_wait
       ELSE IF IsRateLimited(resp)
       THEN LET wait == RetryAfterSeconds(resp.headers)
            IN  IF wait.ok
                THEN /\ bk_pc' = "sleep"
                     /\ bk_wait' = wait.val
                     /\ UNCHANGED bk_result
                ELSE /\ bk_pc' = "raised"
                     /\ bk_result' = [kind |-> "raise", exc |-> "ValueError"]
                     /\ UNCHANGED bk_wait
       ELSE /\ bk_pc' = "raised"
            /\ bk_result' = [kind |-> "raise", exc |-> "SlackApiError", error |-> resp]
            /\ UNCHANGED bk_wait
    /\ UNCHANGED <<bk_request, bk_sleeps, runVars, tokVars, liveVars, chkVars, metaVars, sanVars, pageVars, splitVars, mergeVars, collectVars>>

\* time.sleep(wait) (87), which raises ValueError for a negative length, then
\* continue (88)
BackoffSleep ==
    /\ bk_pc = "sleep"
    /\ IF bk_wait < 0
       THEN /\ bk_pc' = "raised"
            /\ bk_result' = [kind |-> "raise", exc |-> "ValueError"]
            /\ UNCHANGED bk_sleeps
       ELSE /\ bk_pc' = "call"
            /\ bk_sleeps' = Append(bk_sleeps, bk_wait)
            /\ UNCHANGED bk_result
    /\ UNCHANGED <<bk_request, bk_calls, bk_responses, bk_wait,
                   runVars, tokVars, liveVars, chkVars, metaVars, sanVars, pageVars, splitVars, mergeVars, collectVars>>

NextBackoff == (\E resp \in ResponsePool : BackoffCall(resp)) \/ BackoffSleep

(***************************************************************************)
(* The metadata of one conversation: conv_label, _generate_metadata and    *)
(* _classify_metadata as _process_conversation calls them (304, 317-318),  *)
(* then _save_metadata (324-348) on an output directory without metadata   *)
(* files                                                                   *)
(***************************************************************************)
\* a flag of the conversation object: absent, true or false
FlagField(k, v) == IF v = "absent" THEN EmptyDict ELSE (k :> (v = "true"))

\* "name": absent, "", "a/b", "_", " _ "
NameFields == {EmptyDict, [name |-> <<>>], [name |-> <<97, 47, 98>>], [name |-> <<95>>],
               [name |-> <<32, 95, 32>>]}

\* the other fields of the conversation object: none; all with a value; all
\* present with a value that is false in Python
OtherFields ==
    {EmptyDict,
     [created |-> 5, creator |-> U1, topic |-> [value |-> <<116>>],
      purpose |-> [value |-> <<112>>], is_archived |-> FALSE, is_general |-> TRUE],
     [created |-> 0, creator |-> <<>>, topic |-> EmptyDict, purpose |-> EmptyDict,
      is_archived |-> FALSE, is_general |-> FALSE]}

ConvObjects ==
    {[id |-> <<68, 49>>] @@ FlagField("is_im", im) @@ FlagField("is_mpim", mp)
        @@ FlagField("is_private", pr) @@ nm @@ ot :
        im \in {"absent", "true", "false"}, mp \in {"absent", "true", "false"},
        pr \in {"absent", "true", "false"}, nm \in NameFields, ot \in OtherFields}

\* conversations.members answers: no member, one, two on one page, two on
\* two pages
MemberAnswers == { << <<>> >>, << <<U1>> >>, << <<U1, U2>> >>, << <<U2>>, <<U1>> >> }

\* metadata_lists when the conversation is reached: empty, or one record of
\* another conversation ("C9") in every list
PriorLists == {EmptyLists,
               [k \in Range(MetadataTypes) |-> <<[id |-> <<67, 57>>, members |-> <<U2>>]>>]}

InitMetadata ==
    /\ md_pc = "call"
    /\ md_conv \in ConvObjects
    /\ md_member_pages \in MemberAnswers
    /\ md_prior \in PriorLists
    /\ md_lists = md_prior
    /\ md_label = <<>>
    /\ md_meta = EmptyDict
    /\ md_saved = EmptyLists

IdleMetadata ==
    /\ md_pc = "idle"
    /\ md_conv = EmptyDict
    /\ md_member_pages = <<>>
    /\ md_prior = EmptyLists
    /\ md_lists = EmptyLists
    /\ md_label = <<>>
    /\ md_meta = EmptyDict
    /\ md_saved = EmptyLists

\* label = self.conv_label(conv) (304); metadata = self._generate_metadata(conv,
\* label) (317); self._classify_metadata(conv, metadata, metadata_lists) (318)
GenerateAndClassify ==
    /\ md_pc = "call"
    /\ md_label' = conv_label(md_conv)
    /\ md_meta' = generate_metadata(md_conv, md_label', get_members(md_member_pages))
    /\ md_lists' = classify_metadata(md_conv, md_meta', md_lists)
    /\ md_pc' = "classified"
    /\ UNCHANGED <<md_conv, md_member_pages, md_prior, md_saved,
                   runVars, tokVars, liveVars, chkVars, splitVars, mergeVars, collectVars, backoffVars, sanVars,
                   pageVars>>

\* _save_metadata(metadata_lists) (324-348), no metadata file existing
SaveMetadata ==
    /\ md_pc = "classified"
    /\ md_saved' = [k \in Range(MetadataTypes) |->
                      merge_metadata(load_existing_metadata(AbsentFile), md_lists[k])]
    /\ md_pc' = "saved"
    /\ UNCHANGED <<md_conv, md_member_pages, md_prior, md_lists, md_label, md_meta,
                   runVars, tokVars, liveVars, chkVars, splitVars, mergeVars, collectVars, backoffVars, sanVars,
                   pageVars>>

NextMetadata == GenerateAndClassify \/ SaveMetadata

(***************************************************************************)
(* sanitize applied to short names and to names around the limit of 200    *)
(* bytes                                                                   *)
(***************************************************************************)
\* 'a', '_', ' ', '/', the control character 0x1f, the three-byte letter U+D55C
NameAlphabet == {97, 95, 32, 47, 31, 54620}

Repeat(c, n) == [i \in 1..n |-> c]

\* the long beginnings of a name: 199 and 198 bytes of 'a', 198 bytes of U+D55C,
\* 201 underscores
LongStems == {Repeat(97, 199), Repeat(97, 198), Repeat(54620, 66), Repeat(95, 201)}

NamePool ==
    SeqsBetween(NameAlphabet, 0, MaxName)
    \cup {stem \o tail : stem \in LongStems, tail \in SeqsBetween(NameAlphabet, 0, MaxName)}

InitSanitize ==
    /\ sn_pc = "call"
    /\ sn_name \in NamePool
    /\ sn_result = <<>>

IdleSanitize == sn_pc = "idle" /\ sn_name = <<>> /\ sn_result = <<>>

SanitizeCall ==
    /\ sn_pc = "call"
    /\ sn_result' = sanitize(sn_name)
    /\ sn_pc' = "returned"
    /\ UNCHANGED <<sn_name, runVars, tokVars, liveVars, chkVars, splitVars, mergeVars, collectVars, backoffVars,
                   metaVars, pageVars>>

NextSanitize == SanitizeCall

(***************************************************************************)
(* The cursor loop of load_users, list_conversations, get_members,         *)
(* iter_history and fetch_thread, one request at a time, against a server  *)
(* that hands out its pages under cursor tokens                            *)
(***************************************************************************)
\* a Python value that is None or a str
PyNone == [is_none |-> TRUE, value |-> <<>>]
PyStr(s) == [is_none |-> FALSE, value |-> s]

\* variant that looks for next_cursor at the top of the answer
NextCursor_top_level(resp) ==
    IF Has(resp, "next_cursor") THEN PyStr(resp["next_cursor"]) ELSE PyNone

\* resp.get("response_metadata", {}).get("next_cursor")
NextCursor(resp) ==
    IF Has(resp, "response_metadata") /\ Has(resp["response_metadata"], "next_cursor")
    THEN PyStr(resp["response_metadata"]["next_cursor"])
    ELSE PyNone

\* the truth value of cursor in "if not cursor: break"
CursorTruthy(cursor) == ~cursor.is_none /\ cursor.value # <<>>

\* the five fetches: the Web API method, the key of the items in its answer,
\* and whether the items are read by resp[key] or by resp.get(key, [])
PagedFetches ==
    {[method |-> "users.list", key |-> "members", by_get |-> FALSE],
     [method |-> "conversations.list", key |-> "channels", by_get |-> FALSE],
     [method |-> "conversations.members", key |-> "members", by_get |-> FALSE],
     [method |-> "conversations.history", key |-> "messages", by_get |-> TRUE],
     [method |-> "conversations.replies", key |-> "messages", by_get |-> TRUE]}

\* resp["members"], resp["channels"], resp.get("messages", [])
ItemsOf(fetch, resp) == IF Has(resp, fetch.key) THEN resp[fetch.key] ELSE <<>>

\* the token under which the server hands out page i: "c2", "c3", ...
PageToken(i) == <<99, 48 + i>>

\* how the last answer of the server says that nothing follows: without
\* response_metadata, with an empty response_metadata, with next_cursor ""
LastPageMarks ==
    {EmptyDict, [x \in {"response_metadata"} |-> EmptyDict],
     [x \in {"response_metadata"} |-> [next_cursor |-> <<>>]]}

\* the items of page i, newest first as the server orders them: none, one, two
PageItems(i) == {<<>>, <<100 - 10 * i>>, <<102 - 10 * i, 101 - 10 * i>>}

\* the servers: 1..MaxPages pages, page i answered to the cursor the page
\* before announced (page 1 to a request without cursor)
PagedServers(fetch) ==
    UNION {
      {[i \in 1..n |->
          [cursor |-> IF i = 1 THEN PyNone ELSE PyStr(PageToken(i)),
           answer |-> (IF items[i] = <<>> /\ fetch.by_get /\ i = n THEN EmptyDict
                       ELSE (fetch.key :> items[i]))
                      @@ (IF i < n
                          THEN [x \in {"response_metadata"} |->
                                  [next_cursor |-> PageToken(i + 1)]]
                          ELSE last)]] :
         items \in {f \in [1..n -> UNION {PageItems(i) : i \in 1..n}] :
                      \A i \in 1..n : f[i] \in PageItems(i)},
         last \in LastPageMarks} : n \in 1..MaxPages}

\* what the server answers to a request carrying cursor
ServerAnswer(server, cursor) ==
    server[CHOOSE i \in 1..Len(server) : server[i].cursor = cursor].answer

InitPaginate ==
    /\ pg_pc = "request"
    /\ pg_endpoint \in PagedFetches
    /\ pg_server \in PagedServers(pg_endpoint)
    /\ pg_cursor = PyNone
    /\ pg_requests = <<>>
    /\ pg_responses = <<>>
    /\ pg_out = <<>>

IdlePaginate ==
    /\ pg_pc = "idle"
    /\ pg_endpoint = [method |-> "none", key |-> "none", by_get |-> FALSE]
    /\ pg_server = <<>>
    /\ pg_cursor = PyNone
    /\ pg_requests = <<>>
    /\ pg_responses = <<>>
    /\ pg_out = <<>>

\* one turn of the while loop: the request with the current cursor, the items
\* of the answer appended (or yielded), the cursor replaced, the test
PageRequest ==
    /\ pg_pc = "request"
    /\ LET resp == ServerAnswer(pg_server, pg_cursor)
       IN  /\ pg_requests' = Append(pg_requests, pg_cursor)
           /\ pg_responses' = Append(pg_responses, resp)
           /\ pg_out' = pg_out \o ItemsOf(pg_endpoint, resp)
           /\ pg_cursor' = NextCursor(resp)
           /\ pg_pc' = IF CursorTruthy(NextCursor(resp)) THEN "request" ELSE "done"
    /\ UNCHANGED <<pg_endpoint, pg_server, runVars, tokVars, liveVars, chkVars, splitVars, mergeVars, collectVars,
                   backoffVars, metaVars, sanVars>>

NextPaginate == PageRequest

(***************************************************************************)
(* add_tokens_to_files.py applied to backup files over a pool of URLs      *)
(***************************************************************************)
\* "https://files.slack.com/f", the same with the scheme in capitals,
\* "https://x.io/f", "https://x.io/files.slack.com"
UrlHeads == {<<104, 116, 116, 112, 115, 58, 47, 47, 102, 105, 108, 101, 115, 46, 115, 108, 97, 99, 107, 46, 99, 111, 109, 47, 102>>,
             <<72, 84, 84, 80, 83, 58, 47, 47, 102, 105, 108, 101, 115, 46, 115, 108, 97, 99, 107, 46, 99, 111, 109, 47, 102>>,
             <<104, 116, 116, 112, 115, 58, 47, 47, 120, 46, 105, 111, 47, 102>>,
             <<104, 116, 116, 112, 115, 58, 47, 47, 120, 46, 105, 111, 47, 102, 105, 108, 101, 115, 46, 115, 108, 97, 99, 107, 46, 99, 111, 109>>}

\* no query, "?a=b", "?a=", "?token=t", "?mytoken=t", "?a=b/c", "?c=d&a=b&c=e"
UrlQueries == {<<>>, <<63, 97, 61, 98>>,
               <<63, 97, 61>>,
               <<63, 116, 111, 107, 101, 110, 61, 116>>,
               <<63, 109, 121, 116, 111, 107, 101, 110, 61, 116>>,
               <<63, 97, 61, 98, 47, 99>>,
               <<63, 99, 61, 100, 38, 97, 61, 98, 38, 99, 61, 101>>}

\* no fragment, "#x"
UrlFragments == {<<>>, <<35, 120>>}

UrlPool == {<<>>} \cup {h \o q \o f : h \in UrlHeads, q \in UrlQueries, f \in UrlFragments}

\* "T", "xoxe-1"
TokenPool == {<<84>>, <<120, 111, 120, 101, 45, 49>>}

\* a thumbnail URL without a query
ThumbUrl == <<104, 116, 116, 112, 115, 58, 47, 47, 102, 105, 108, 101, 115, 46, 115, 108, 97, 99, 107, 46, 99, 111, 109, 47, 116>>

\* messages of a date file: with one file object holding a URL (and a
\* thumbnail or not), without files, with files that is no list, with a file
\* object that is no dict
TokenMsgPool ==
    {PyDict([ts |-> TsDay1,
             files |-> PyList(<<PyDict([id |-> 1, url_private |-> u] @@ th)>>)]) :
        u \in UrlPool, th \in {EmptyDict, [thumb_64 |-> ThumbUrl]}}
    \cup {PyDict([ts |-> TsDay1]),
          PyDict([ts |-> TsDay1, files |-> PyText(ThumbUrl)]),
          PyDict([ts |-> TsDay1, files |-> PyList(<<PyText(ThumbUrl)>>)])}

\* the files holding message: a list of it alone, a list of it and of a
\* string, a dict in place of the list, text that is no JSON
TokenFiles(message) ==
    {[valid |-> TRUE, data |-> PyList(<<message>>)],
     [valid |-> TRUE, data |-> PyList(<<message, PyText(ThumbUrl)>>)],
     [valid |-> TRUE, data |-> PyDict([messages |-> PyList(<<message>>)])],
     [valid |-> FALSE, data |-> PyList(<<>>)]}

NoTokenCall == [count |-> 0, written |-> FALSE]

InitToken ==
    /\ tk_pc = "call"
    /\ tk_token \in TokenPool
    /\ tk_dry_run \in BOOLEAN
    /\ \E message \in TokenMsgPool :
          /\ tk_messages = <<message>>
          /\ tk_file \in TokenFiles(message)
    /\ tk_disk = tk_file
    /\ tk_flags = <<>>
    /\ tk_result = NoTokenCall

IdleToken ==
    /\ tk_pc = "idle"
    /\ tk_token = <<>>
    /\ tk_dry_run = FALSE
    /\ tk_messages = <<>>
    /\ tk_file = [valid |-> FALSE, data |-> PyList(<<>>)]
    /\ tk_disk = tk_file
    /\ tk_flags = <<>>
    /\ tk_result = NoTokenCall

\* process_message applied to the message in memory, a first and a second time
ProcessMessageCall ==
    /\ tk_pc # "idle"
    /\ Len(tk_flags) < 2
    /\ LET r == process_message(tk_messages[Len(tk_messages)], tk_token)
       IN  /\ tk_flags' = Append(tk_flags, r.modified)
           /\ tk_messages' = Append(tk_messages, r.message)
    /\ UNCHANGED <<tk_pc, tk_token, tk_dry_run, tk_file, tk_disk, tk_result,
                   runVars, splitVars, mergeVars, collectVars, backoffVars, metaVars,
                   sanVars, pageVars, liveVars, chkVars>>

\* process_json_file applied to the file on disk
ProcessJsonFileCall ==
    /\ tk_pc = "call"
    /\ LET r == process_json_file(tk_disk, tk_token, tk_dry_run)
       IN  /\ tk_result' = [count |-> r.count, written |-> r.written]
           /\ tk_disk' = r.file
    /\ tk_pc' = "returned"
    /\ UNCHANGED <<tk_token, tk_dry_run, tk_file, tk_messages, tk_flags,
                   runVars, splitVars, mergeVars, collectVars, backoffVars, metaVars,
                   sanVars, pageVars, liveVars, chkVars>>

NextToken == ProcessMessageCall \/ ProcessJsonFileCall

(***************************************************************************)
(* The Web API calls of one run (src/main.py:364-393), one call at a time, *)
(* against a server free to answer each call with a page, a 429 or another *)
(* error.  What the answers carry besides cursors and thread roots is left *)
(* out; the output directory is empty, so that no conversation is skipped. *)
(***************************************************************************)
\* "while True:" of backoff_retry (81): the loop goes on whatever the number
\* of attempts made.  (First the variant that gives up after MaxAttempts.)
backoff_retries_bounded(attempts) == attempts < MaxAttempts

backoff_retries(attempts) == TRUE

\* the pages the server may answer: the last one or one announcing "c2", with
\* a thread root among its messages or without messages
LivePages ==
    {mark @@ msgs :
        mark \in LastPageMarks
                 \cup {[x \in {"response_metadata"} |-> [next_cursor |-> PageToken(2)]]},
        msgs \in {EmptyDict, [x \in {"messages"} |-> <<ThreadRoot>>]}}

LiveAnswers == {[kind |-> "ok", body |-> b] : b \in LivePages} \cup ApiErrorPool

\* where run goes on when a fetch other than fetch_thread has had its last
\* page: load_users (370), list_conversations (350-362), then for each
\* conversation _collect_messages (314) and get_members (222), then
\* _save_metadata (388)
AfterFetch(stage, i, total) ==
    CASE stage = "users.list" ->
            [pc |-> "call", stage |-> "conversations.list", idx |-> 0]
      [] stage = "conversations.list" ->
            IF total = 0 THEN [pc |-> "save", stage |-> stage, idx |-> 1]
            ELSE [pc |-> "call", stage |-> "conversations.history", idx |-> 1]
      [] stage = "conversations.history" ->
            [pc |-> "call", stage |-> "conversations.members", idx |-> i]
      [] OTHER ->
            IF i < total
            THEN [pc |-> "call", stage |-> "conversations.history", idx |-> i + 1]
            ELSE [pc |-> "save", stage |-> stage, idx |-> i + 1]

InitLive ==
    /\ lv_pc = "call"
    /\ lv_stage = "users.list"
    /\ lv_total \in 0..MaxConvs
    /\ lv_idx = 0
    /\ lv_cursor = PyNone
    /\ lv_hist_next = PyNone
    /\ lv_answer = NoResult
    /\ lv_wait = 0
    /\ lv_attempts = 0
    /\ lv_slept = FALSE
    /\ lv_written = FALSE

IdleLive ==
    /\ lv_pc = "idle"
    /\ lv_stage = "none"
    /\ lv_total = 0
    /\ lv_idx = 0
    /\ lv_cursor = PyNone
    /\ lv_hist_next = PyNone
    /\ lv_answer = NoResult
    /\ lv_wait = 0
    /\ lv_attempts = 0
    /\ lv_slept = FALSE
    /\ lv_written = FALSE

\* one call of the Web API inside backoff_retry (83), the server answering
\* resp.  A page: its cursor is taken and tested (111-113, 122-124, 136-137,
\* 192-193, 203-204); a thread root among the messages iter_history yields
\* has fetch_thread run before iter_history is resumed (210-213).  A 429:
\* the wait is read (86).  Any other error, or a wait that is no integer,
\* leaves run.
LiveCall(resp) ==
    /\ lv_pc = "call"
    /\ lv_answer' = resp
    /\ IF resp.kind = "ok"
       THEN LET next == NextCursor(resp.body)
                items == IF Has(resp.body, "messages") THEN resp.body["messages"]
                         ELSE <<>>
                root == /\ lv_stage = "conversations.history"
                        /\ \E i \in 1..Len(items) : IsThreadRoot(items[i])
                after == AfterFetch(lv_stage, lv_idx, lv_total)
            IN  /\ lv_attempts' = 0
                /\ IF root
                   THEN /\ lv_stage' = "conversations.replies"
                        /\ lv_cursor' = PyNone
                        /\ lv_hist_next' = IF CursorTruthy(next) THEN next ELSE PyNone
                        /\ UNCHANGED <<lv_pc, lv_idx>>
                   ELSE IF CursorTruthy(next)
                   THEN /\ lv_cursor' = next
                        /\ UNCHANGED <<lv_pc, lv_stage, lv_idx, lv_hist_next>>
                   ELSE IF lv_stage = "conversations.replies"
                   THEN /\ lv_stage' = IF CursorTruthy(lv_hist_next)
                                       THEN "conversations.history"
                                       ELSE "conversations.members"
                        /\ lv_cursor' = lv_hist_next
                        /\ lv_hist_next' = PyNone
                        /\ UNCHANGED <<lv_pc, lv_idx>>
                   ELSE /\ lv_pc' = after.pc
                        /\ lv_stage' = after.stage
                        /\ lv_idx' = after.idx
                        /\ lv_cursor' = PyNone
                        /\ UNCHANGED lv_hist_next
                /\ UNCHANGED lv_wait
       ELSE /\ IF IsRateLimited(resp) /\ backoff_retries(lv_attempts)
                  /\ RetryAfterSeconds(resp.headers).ok
               THEN /\ lv_pc' = "sleep"
                    /\ lv_wait' = RetryAfterSeconds(resp.headers).val
                    /\ lv_attempts' = IF lv_attempts < MaxAttempts THEN lv_attempts + 1
                                      ELSE lv_attempts
               ELSE /\ lv_pc' = "raised"
                    /\ UNCHANGED <<lv_wait, lv_attempts>>
            /\ UNCHANGED <<lv_stage, lv_idx, lv_cursor, lv_hist_next>>
    /\ UNCHANGED <<lv_total, lv_slept, lv_written, runVars, tokVars, chkVars, splitVars,
                   mergeVars, collectVars, backoffVars, metaVars, sanVars, pageVars>>

\* time.sleep(wait) (87), which raises ValueError for a negative length, then
\* continue (88): the same call again
LiveSleep ==
    /\ lv_pc = "sleep"
    /\ IF lv_wait < 0
       THEN lv_pc' = "raised" /\ UNCHANGED lv_slept
       ELSE lv_pc' = "call" /\ lv_slept' = TRUE
    /\ UNCHANGED <<lv_stage, lv_total, lv_idx, lv_cursor, lv_hist_next, lv_answer, lv_wait,
                   lv_attempts, lv_written, runVars, tokVars, chkVars, splitVars,
                   mergeVars, collectVars, backoffVars, metaVars, sanVars, pageVars>>

\* _save_metadata (388) and the end of run
LiveSaveMetadata ==
    /\ lv_pc = "save"
    /\ lv_written' = TRUE
    /\ lv_pc' = "done"
    /\ UNCHANGED <<lv_stage, lv_total, lv_idx, lv_cursor, lv_hist_next, lv_answer, lv_wait,
                   lv_attempts, lv_slept, runVars, tokVars, chkVars, splitVars,
                   mergeVars, collectVars, backoffVars, metaVars, sanVars, pageVars>>

NextLive == (\E resp \in LiveAnswers : LiveCall(resp)) \/ LiveSleep \/ LiveSaveMetadata

(***************************************************************************)
(* check_slack_status.py: run_all_checks and the end of main.  Of a check  *)
(* result the keys the summary reads are kept, response_time_ms excepted.  *)
(***************************************************************************)
\* what one call of the Web API does: it returns a response with its ok
\* flag, raises a SlackApiError, or raises another exception whose text does
\* or does not speak of a timeout
CheckAnswers ==
    {[kind |-> "ok", ok |-> b] : b \in BOOLEAN}
    \cup ApiErrorPool
    \cup {[kind |-> "exception", timed_out |-> b] : b \in BOOLEAN}

\* check_auth (24-62)
check_auth(answer) ==
    CASE answer.kind = "ok" -> [raised |-> FALSE, result |-> [success |-> answer.ok]]
      [] answer.kind = "error" -> [raised |-> FALSE, result |-> [success |-> FALSE]]
      [] OTHER ->
            [raised |-> FALSE,
             result |-> IF answer.timed_out THEN [success |-> FALSE, timeout |-> TRUE]
                        ELSE [success |-> FALSE]]

\* int(e.response.headers.get("Retry-After", 0)) (91, 131, 172)
CheckRetryAfter(headers) ==
    IF Has(headers, "Retry-After") THEN ParseInt(headers["Retry-After"])
    ELSE [ok |-> TRUE, val |-> 0]

\* check_rate_limit (64-102), check_users_list (104-144) and
\* check_conversations_list (146-186), alike in what the summary reads; the
\* ValueError of int() is raised inside the except clause and leaves the check
check_api(answer) ==
    CASE answer.kind = "ok" ->
            [raised |-> FALSE,
             result |-> [success |-> answer.ok, rate_limited |-> FALSE]]
      [] answer.kind = "error" ->
            IF answer.has_response /\ answer.status_code = 429
            THEN [raised |-> ~CheckRetryAfter(answer.headers).ok,
                  result |-> [success |-> FALSE, rate_limited |-> TRUE]]
            ELSE [raised |-> FALSE,
                  result |-> [success |-> FALSE, rate_limited |-> FALSE]]
      [] OTHER ->
            [raised |-> FALSE,
             result |-> IF answer.timed_out
                        THEN [success |-> FALSE, rate_limited |-> FALSE, timeout |-> TRUE]
                        ELSE [success |-> FALSE, rate_limited |-> FALSE]]

\* the loop of _generate_summary (293-307) over the first n checks
RECURSIVE SummaryLoop(_, _)
SummaryLoop(checks, n) ==
    IF n = 0
    THEN [overall_status |-> "OK", total_checks |-> Len(checks), successful |-> 0,
          failed |-> 0, rate_limited |-> 0, timed_out |-> 0]
    ELSE LET sofar == SummaryLoop(checks, n - 1)
             result == checks[n].result
             counted == IF TruthyFlag(result, "success")
                        THEN [sofar EXCEPT !.successful = @ + 1]
                        ELSE [sofar EXCEPT !.failed = @ + 1]
             limited == IF TruthyFlag(result, "rate_limited")
                        THEN [counted EXCEPT !.rate_limited = @ + 1,
                                             !.overall_status = "RATE_LIMITED"]
                        ELSE counted
         IN  IF TruthyFlag(result, "timeout")
             THEN [limited EXCEPT !.timed_out = @ + 1, !.overall_status = "TIMEOUT"]
             ELSE limited

\* _generate_summary (278-317)
generate_summary(checks) ==
    LET summary == SummaryLoop(checks, Len(checks))
    IN  IF summary.failed > 0 /\ summary.overall_status = "OK"
        THEN [summary EXCEPT !.overall_status = "ERROR"]
        ELSE summary

\* the names under which run_all_checks files the results (200, 218, 236, 254)
CheckNames == <<"auth", "api_test", "users_list", "conversations_list">>

\* run_all_checks (188-276): the checks in order, as results["checks"]; a
\* failed auth check returns the results at once (211); an exception of a
\* check leaves run_all_checks
run_all_checks(answers) ==
    LET called == [i \in 1..Len(CheckNames) |->
                      IF i = 1 THEN check_auth(answers[i]) ELSE check_api(answers[i])]
        filed(n) == [i \in 1..n |-> [name |-> CheckNames[i], result |-> called[i].result]]
    IN  IF ~called[1].result.success
        THEN [raised |-> FALSE, results |-> [checks |-> filed(1)]]
        ELSE IF \E i \in 2..Len(CheckNames) : called[i].raised
        THEN [raised |-> TRUE, results |-> EmptyDict]
        ELSE [raised |-> FALSE,
              results |-> [checks |-> filed(Len(CheckNames)),
                           summary |-> generate_summary(filed(Len(CheckNames)))]]

InitCheck ==
    /\ ck_pc = "call"
    /\ ck_answers \in [1..Len(CheckNames) -> CheckAnswers]
    /\ ck_results = EmptyDict

IdleCheck ==
    /\ ck_pc = "idle"
    /\ ck_answers = <<>>
    /\ ck_results = EmptyDict

\* results = checker.run_all_checks(...) (412)
RunAllChecks ==
    /\ ck_pc = "call"
    /\ LET r == run_all_checks(ck_answers)
       IN  /\ ck_pc' = IF r.raised THEN "raised" ELSE "returned"
           /\ ck_results' = r.results
    /\ UNCHANGED <<ck_answers, runVars, tokVars, liveVars, splitVars, mergeVars,
                   collectVars, backoffVars, metaVars, sanVars, pageVars>>

\* the end of main (418-420): results["summary"] raises KeyError when the key
\* is missing; sys.exit(1) unless the status is OK
MainExit ==
    /\ ck_pc = "returned"
    /\ ck_pc' = IF ~Has(ck_results, "summary") THEN "key_error"
                ELSE IF ck_results["summary"].overall_status # "OK" THEN "exit_1"
                ELSE "exit_0"
    /\ UNCHANGED <<ck_answers, ck_results, runVars, tokVars, liveVars, splitVars,
                   mergeVars, collectVars, backoffVars, metaVars, sanVars, pageVars>>

NextCheck == RunAllChecks \/ MainExit

(***************************************************************************)
(* Specifications                                                          *)
(***************************************************************************)
Init == InitRun /\ IdleSplit /\ IdleMerge /\ IdleCollect /\ IdleBackoff /\ IdleMetadata /\ IdleSanitize
        /\ IdlePaginate /\ IdleToken /\ IdleLive /\ IdleCheck
Next ==
    \/ LoadUsers
    \/ GetConversations
    \/ \E resp \in {[kind |-> "ok"]} \cup ApiErrorPool : GetChannelInfo(resp)
    \/ SkipConversation
    \/ MakeConversationDir
    \/ CollectMessages
    \/ \E endpoint \in {"conversations.history", "conversations.replies"} :
          \E resp \in ApiErrorPool : CollectMessagesApiError(endpoint, resp)
    \/ ClassifyAndSplit
    \/ \E resp \in ApiErrorPool : GenerateMetadataApiError(resp)
    \/ WriteDateFile
    \/ \E outcome \in {"open_raised", "dump_raised"} : WriteDateFileFails(outcome)
    \/ MergeMetadata
    \/ WriteMetadataFile
    \/ Kill
    \/ \E k \in Range(MetadataTypes) :
          \E how \in {"deleted", "unparsable"} : DamageMetadataFile(k, how)
    \/ StartNextRun
Spec == Init /\ [][Next]_vars

InitSplitSpec == IdleRun /\ InitSplit /\ IdleMerge /\ IdleCollect /\ IdleBackoff /\ IdleMetadata /\ IdleSanitize
        /\ IdlePaginate /\ IdleToken /\ IdleLive /\ IdleCheck
SpecSplit == InitSplitSpec /\ [][NextSplit]_vars

InitMergeSpec == IdleRun /\ IdleSplit /\ InitMerge /\ IdleCollect /\ IdleBackoff /\ IdleMetadata /\ IdleSanitize
        /\ IdlePaginate /\ IdleToken /\ IdleLive /\ IdleCheck
SpecMerge == InitMergeSpec /\ [][NextMerge]_vars

InitCollectSpec == IdleRun /\ IdleSplit /\ IdleMerge /\ InitCollect /\ IdleBackoff /\ IdleMetadata /\ IdleSanitize
        /\ IdlePaginate /\ IdleToken /\ IdleLive /\ IdleCheck
SpecCollect == InitCollectSpec /\ [][NextCollect]_vars

InitMetadataSpec ==
    IdleRun /\ IdleSplit /\ IdleMerge /\ IdleCollect /\ IdleBackoff /\ InitMetadata
        /\ IdleSanitize /\ IdlePaginate /\ IdleToken /\ IdleLive /\ IdleCheck
SpecMetadata == InitMetadataSpec /\ [][NextMetadata]_vars

InitSanitizeSpec ==
    IdleRun /\ IdleSplit /\ IdleMerge /\ IdleCollect /\ IdleBackoff /\ IdleMetadata
        /\ InitSanitize /\ IdlePaginate /\ IdleToken /\ IdleLive /\ IdleCheck
SpecSanitize == InitSanitizeSpec /\ [][NextSanitize]_vars

InitPaginateSpec ==
    IdleRun /\ IdleSplit /\ IdleMerge /\ IdleCollect /\ IdleBackoff /\ IdleMetadata
        /\ IdleSanitize /\ InitPaginate /\ IdleToken /\ IdleLive /\ IdleCheck
SpecPaginate == InitPaginateSpec /\ [][NextPaginate]_vars

InitTokenSpec ==
    IdleRun /\ IdleSplit /\ IdleMerge /\ IdleCollect /\ IdleBackoff /\ IdleMetadata
        /\ IdleSanitize /\ IdlePaginate /\ InitToken /\ IdleLive /\ IdleCheck
SpecToken == InitTokenSpec /\ [][NextToken]_vars

InitLiveSpec ==
    IdleRun /\ IdleSplit /\ IdleMerge /\ IdleCollect /\ IdleBackoff /\ IdleMetadata
        /\ IdleSanitize /\ IdlePaginate /\ IdleToken /\ InitLive /\ IdleCheck
\* the process is sequential and nothing suspends it: whenever it has a next
\* step it takes one (every call is answered, every sleep ends)
SpecLive == InitLiveSpec /\ [][NextLive]_vars /\ WF_vars(NextLive)

InitCheckSpec ==
    IdleRun /\ IdleSplit /\ IdleMerge /\ IdleCollect /\ IdleBackoff /\ IdleMetadata
        /\ IdleSanitize /\ IdlePaginate /\ IdleToken /\ IdleLive /\ InitCheck
SpecCheck == InitCheckSpec /\ [][NextCheck]_vars

InitBackoffSpec == IdleRun /\ IdleSplit /\ IdleMerge /\ IdleCollect /\ InitBackoff /\ IdleMetadata /\ IdleSanitize
        /\ IdlePaginate /\ IdleToken /\ IdleLive /\ IdleCheck
SpecBackoff == InitBackoffSpec /\ [][NextBackoff]_vars

(***************************************************************************)
(* Properties of the run                                                   *)
(***************************************************************************)
\* What one complete run leaves on an empty output directory, computed
\* conversation by conversation.
WriteGroups(dir, groups) ==
    [d \in DOMAIN dir \cup {groups[i].date : i \in 1..Len(groups)} |->
        IF \E i \in 1..Len(groups) : groups[i].date = d
        THEN groups[CHOOSE i \in 1..Len(groups) : groups[i].date = d].msgs
        ELSE dir[d]]

RECURSIVE RunOver(_, _, _, _)
RunOver(convs, root, lists, frc) ==
    IF convs = <<>> THEN [raised |-> FALSE, root |-> root, lists |-> lists]
    ELSE LET conv == Head(convs)
             label == conv_label(conv)
             has_json == label \in DOMAIN root /\ DOMAIN root[label] # {}
             made == IF label \in DOMAIN root THEN root ELSE root @@ (label :> EmptyDict)
             got == collect_messages(slack.history[conv["id"]], slack.replies[conv["id"]])
             meta == generate_metadata(conv, label, get_members(slack.members[conv["id"]]))
             split == split_messages_by_date(got.msgs)
         IN  IF ~frc /\ has_json THEN RunOver(Tail(convs), root, lists, frc)
             ELSE IF got.raised \/ split.raised
             THEN [raised |-> TRUE, root |-> made, lists |-> lists]
             ELSE RunOver(Tail(convs),
                          [made EXCEPT ![label] = WriteGroups(@, split.groups)],
                          classify_metadata(conv, meta, lists), frc)

UninterruptedRun(frc) ==
    LET r == RunOver(conversations, EmptyDict, EmptyLists, frc)
    IN  [raised |-> r.raised,
         outdir |-> r.root,
         meta_files |-> [k \in Range(MetadataTypes) |->
                            [exists |-> TRUE, valid |-> TRUE,
                             data |-> merge_metadata(<<>>, r.lists[k])]]]

\* C1: when a non-forced run is killed at some step and a non-forced run then
\* completes against the same upstream, the conversation directories and the
\* four metadata files are those one uninterrupted run would have left.
C1_ResumeEqualsUninterrupted ==
    (run_no = 2 /\ prev.outcome = "killed" /\ ~prev.force /\ ~force /\ pc = "done"
        /\ ~UninterruptedRun(FALSE).raised)
    => /\ outdir = UninterruptedRun(FALSE).outdir
       /\ meta_files = UninterruptedRun(FALSE).meta_files

\* C2: at the head of _process_conversation the conversation is skipped
\* (counted as skipped, no API call, no file written, no metadata record
\* appended) exactly when force is not set and its directory exists and holds
\* at least one .json file; in every other case its processing begins.
C2_SkipDecision ==
    [][(pc = "loop" /\ idx <= Len(conversations) /\ pc' \in {"loop", "collect"})
       => LET label == conv_label(conversations[idx])
              has_json == label \in DOMAIN outdir /\ DOMAIN outdir[label] # {}
          IN  IF ~force /\ has_json
              THEN /\ skipped_count' = skipped_count + 1
                   /\ processed_count' = processed_count
                   /\ idx' = idx + 1
                   /\ pc' = "loop"
                   /\ UNCHANGED <<outdir, meta_files, metadata_lists, api_log>>
              ELSE /\ pc' = "collect"
                   /\ skipped_count' = skipped_count
                   /\ idx' = idx
                   /\ label \in DOMAIN outdir'
                   /\ UNCHANGED <<meta_files, metadata_lists, api_log>>]_vars

\* a second, non-forced run has skipped one conversation and processed another
C2_Witness ==
    run_no = 2 /\ ~force /\ skipped_count > 0 /\ processed_count > 0

\* two complete non-forced runs, one after the other, the second one ended
TwoPlainRunsDone ==
    run_no = 2 /\ prev.outcome = "done" /\ ~prev.force /\ ~force /\ pc = "done"
        /\ prev.conversation_id = conversation_id
        /\ faults \notin {"disk", "damage"}

Is429(err) ==
    err.response.kind = "error" /\ err.response.has_response
        /\ err.response.status_code = 429

\* C12: when a history, replies or members call of one conversation raises an
\* API error that is no 429, the error is caught at that conversation: the run
\* goes on with the next conversation of the list, keeping the metadata
\* records gathered so far for the merge at the end of the run.
C12_ApiErrorCaught ==
    [][(pc \in {"collect", "metadata"} /\ api_error = NoError /\ api_error' # NoError
            /\ ~Is429(api_error'))
       => /\ pc' = "loop"
          /\ idx' = idx + 1
          /\ UNCHANGED <<conversations, metadata_lists>>]_vars

\* C13: with a conversation id given, a conversations.info error that is no
\* 429 ends the run by exit status 1 with no conversation directory created
\* and no metadata file written in this run; a 429 answer is retried and ends
\* nothing.
C13_InfoErrorAborts ==
    [][(pc = "get_conversations" /\ conversation_id # <<>> /\ pc' # "killed"
            /\ api_error' # NoError)
       => IF Is429(api_error')
          THEN pc' = "get_conversations"
          ELSE /\ pc' = "exit_1"
               /\ outdir' = prev.outdir
               /\ meta_files' = prev.meta_files]_vars

\* C20: a conversation whose collected message list is empty is processed
\* without any file being written: its directory holds the date files it
\* held before, its metadata record is classified, and no date file holding
\* an empty list ever exists.
C20_EmptyConversationWritesNothing ==
    /\ [][(pc = "metadata" /\ messages = <<>> /\ pc' \notin {"killed", "api_error"})
          => /\ pc' = "loop"
             /\ idx' = idx + 1
             /\ processed_count' = processed_count + 1
             /\ outdir' = outdir
             /\ meta_files' = meta_files
             /\ \E k \in Range(MetadataTypes) :
                   /\ Len(metadata_lists'[k]) = Len(metadata_lists[k]) + 1
                   /\ metadata_lists'[k][Len(metadata_lists'[k])]["id"]
                      = conversations[idx]["id"]]_vars
    /\ [](\A label \in DOMAIN outdir :
            \A date \in DOMAIN outdir[label] : outdir[label][date] # <<>>)

\* a conversation without messages has been processed: its directory is
\* empty and its record is in a metadata list
C20_Witness ==
    /\ pc = "loop"
    /\ \E i \in Range(processed) :
          /\ slack.history[conversations[i]["id"]] = HistEmpty
          /\ DOMAIN outdir[conv_label(conversations[i])] = {}
          /\ \E k \in Range(MetadataTypes) :
                \E j \in 1..Len(metadata_lists[k]) :
                   metadata_lists[k][j]["id"] = conversations[i]["id"]

(***************************************************************************)
(* Properties of _collect_messages                                         *)
(***************************************************************************)
CountIn(seq, Test(_)) == Cardinality({i \in 1..Len(seq) : Test(seq[i])})

\* C4: for every thread root with reply_count N > 0 in the history, the
\* collected list holds the root once and at most N other messages of that
\* thread, and no ts occurs twice in the list.
C4_ThreadExpansion ==
    co_pc = "returned"
    => LET out == co_result.msgs
           history == iter_history(co_history)
       IN  /\ \A i \in 1..Len(history) :
                 (IsThreadRoot(history[i]) /\ Has(history[i], "ts"))
                 => /\ CountIn(out, LAMBDA m : Has(m, "ts") /\ m["ts"] = history[i]["ts"]) = 1
                    /\ CountIn(out, LAMBDA m : /\ Has(m, "thread_ts") /\ Has(m, "ts")
                                                /\ m["thread_ts"] = history[i]["ts"]
                                                /\ m["ts"] # history[i]["ts"])
                          <= history[i]["reply_count"]
           /\ \A i, j \in 1..Len(out) :
                 (i # j /\ Has(out[i], "ts") /\ Has(out[j], "ts"))
                 => out[i]["ts"] # out[j]["ts"]

\* the messages conversations.replies holds for the threads of the history
RepliesListed ==
    UNION {Range(fetch_thread(co_replies, r)) : r \in DOMAIN co_replies}

\* C21: a message without a ts field, in the history pages or in a thread's
\* replies, is dropped: the collection returns, no date group holds a
\* message without ts, and every history message with a ts is in a date group.
C21_TsLessDropped ==
    LET history == iter_history(co_history)
    IN  (/\ co_pc # "call"
         /\ \/ \E i \in 1..Len(history) : ~Has(history[i], "ts")
            \/ \E m \in RepliesListed : ~Has(m, "ts"))
        => /\ co_pc = "returned"
           /\ LET split == split_messages_by_date(co_result.msgs)
              IN  /\ ~split.raised
                  /\ \A g \in 1..Len(split.groups) :
                        \A j \in 1..Len(split.groups[g].msgs) :
                           Has(split.groups[g].msgs[j], "ts")
                  /\ \A i \in 1..Len(history) :
                        Has(history[i], "ts")
                        => \E g \in 1..Len(split.groups) :
                              history[i] \in Range(split.groups[g].msgs)

(***************************************************************************)
(* Properties of split_messages_by_date                                    *)
(***************************************************************************)
ValidTs(msg) == TsTruthy(msg) /\ ParseFloat(msg["ts"]).ok

\* msg is in the returned groups as often as in the input, always under date
InGroupOf(msg, date) ==
    /\ sp_pc = "returned"
    /\ \A g \in 1..Len(sp_result.groups) :
          (\E i \in 1..Len(sp_result.groups[g].msgs) : sp_result.groups[g].msgs[i] = msg)
          => sp_result.groups[g].date = date
    /\ SeqSum([g \in 1..Len(sp_result.groups) |->
                  CountIn(sp_result.groups[g].msgs, LAMBDA m : m = msg)])
       = CountIn(sp_messages, LAMBDA m : m = msg)

\* every returned group is in non-decreasing order of ts, equal ts in input order
GroupsOrdered ==
    \A g \in 1..Len(sp_result.groups) :
        LET msgs == sp_result.groups[g].msgs
        IN  /\ \A i, j \in 1..Len(msgs) :
                  i < j => ~FloatLess(ParseFloat(msgs[j]["ts"]), ParseFloat(msgs[i]["ts"]))
            /\ \A i \in 1..Len(msgs) :
                  SelectSeq(msgs, LAMBDA m : m["ts"] = msgs[i]["ts"])
                  = SelectSeq(sp_messages, LAMBDA m : TsTruthy(m) /\ m["ts"] = msgs[i]["ts"])

\* C5: for every input list, each message with a valid numeric ts is in
\* exactly one returned group, the one of the UTC date of floor(ts), and every
\* group is in non-decreasing order of ts with equal ts in input order.
C5_DatePartition ==
    sp_pc # "call"
    => \A i \in 1..Len(sp_messages) :
          ValidTs(sp_messages[i])
          => /\ InGroupOf(sp_messages[i],
                          StrftimeDate(ParseFloat(sp_messages[i]["ts"]).whole))
             /\ GroupsOrdered

\* C6: a message whose ts is present but is no number does not abort the
\* call: it is returned in the group 'unknown-date', and the messages with a
\* valid ts are returned under their dates.
C6_UnparsableTsKept ==
    sp_pc # "call"
    => \A i \in 1..Len(sp_messages) :
          (TsTruthy(sp_messages[i]) /\ ~ParseFloat(sp_messages[i]["ts"]).ok)
          => /\ InGroupOf(sp_messages[i], UNKNOWN_DATE)
             /\ \A j \in 1..Len(sp_messages) :
                   ValidTs(sp_messages[j])
                   => InGroupOf(sp_messages[j],
                                StrftimeDate(ParseFloat(sp_messages[j]["ts"]).whole))

(***************************************************************************)
(* Properties of merge_metadata                                            *)
(***************************************************************************)
IdsOf(list) == {list[i]["id"] : i \in 1..Len(list)}

\* the last record of list with the given id
LastWithId(list, id) ==
    list[CHOOSE i \in 1..Len(list) :
            list[i]["id"] = id /\ \A j \in (i + 1)..Len(list) : list[j]["id"] # id]

\* C7: the merge of a new list into an existing one holds one record per id
\* of the union, the new list's record where the id is in the new list (the
\* existing one's otherwise), in ascending order of id; merging the same new
\* list once more changes nothing.
C7_MergeUnionNewWins ==
    /\ Len(mg_applied) >= 1
       => LET new == mg_new[mg_applied[1]]
              out == mg_stored[2]
          IN  /\ IdsOf(out) = IdsOf(mg_existing) \cup IdsOf(new)
              /\ \A i \in 1..Len(out) :
                    out[i] = IF out[i]["id"] \in IdsOf(new)
                             THEN LastWithId(new, out[i]["id"])
                             ELSE LastWithId(mg_existing, out[i]["id"])
              /\ \A i \in 1..(Len(out) - 1) : StrLess(out[i]["id"], out[i + 1]["id"])
    /\ (Len(mg_applied) = 2 /\ mg_applied[1] = mg_applied[2])
       => mg_stored[3] = mg_stored[2]

\* a new list with a record for a stored id and one for a new id was merged twice
C7_Witness ==
    /\ Len(mg_applied) = 2 /\ mg_applied[1] = mg_applied[2]
    /\ LET new == mg_new[mg_applied[1]]
       IN  /\ IdsOf(new) \cap IdsOf(mg_existing) # {}
           /\ IdsOf(new) \ IdsOf(mg_existing) # {}
           /\ \E i \in 1..Len(mg_existing) :
                 /\ mg_existing[i]["id"] \in IdsOf(new)
                 /\ mg_existing[i] # LastWithId(new, mg_existing[i]["id"])

\* C8 as stated: merging A then B gives the stored list that merging B then
\* A gives, whatever ids A and B share.
C8_MergeCommutes ==
    mg_applied = <<"A", "B">>
    => mg_stored[3] = merge_metadata(merge_metadata(mg_existing, mg_new["B"]), mg_new["A"])

\* A and B contribute the same record for every id they share
AgreeOnSharedIds ==
    \A id \in IdsOf(mg_new["A"]) \cap IdsOf(mg_new["B"]) :
        LastWithId(mg_new["A"], id) = LastWithId(mg_new["B"], id)

\* C8 amended: merging A then B gives the stored list that merging B then A
\* gives when A and B contribute the same record for every id they share (so
\* for disjoint id sets); in either order the stored ids are the same.
C8_MergeCommutesOnAgreement ==
    mg_applied = <<"A", "B">>
    => LET ba == merge_metadata(merge_metadata(mg_existing, mg_new["B"]), mg_new["A"])
       IN  /\ AgreeOnSharedIds => mg_stored[3] = ba
           /\ IdsOf(mg_stored[3]) = IdsOf(ba)
           /\ [i \in 1..Len(ba) |-> ba[i]["id"]]
              = [i \in 1..Len(mg_stored[3]) |-> mg_stored[3][i]["id"]]

\* A then B were merged; A and B share an id with the same record, which
\* replaces a different stored record of that id, and A holds an id B lacks
C8_Witness ==
    /\ mg_applied = <<"A", "B">>
    /\ AgreeOnSharedIds
    /\ IdsOf(mg_new["A"]) \ IdsOf(mg_new["B"]) # {}
    /\ \E id \in IdsOf(mg_new["A"]) \cap IdsOf(mg_new["B"]) \cap IdsOf(mg_existing) :
          LastWithId(mg_existing, id) # LastWithId(mg_new["A"], id)

(***************************************************************************)
(* Properties of backoff_retry                                             *)
(***************************************************************************)
\* the header holds a plain number of seconds
HeaderIsSeconds(resp) ==
    /\ Has(resp.headers, "Retry-After")
    /\ resp.headers["Retry-After"] # <<>>
    /\ \A i \in 1..Len(resp.headers["Retry-After"]) : IsDigit(resp.headers["Retry-After"][i])

\* the header is absent, or is no integer
HeaderAbsentOrMalformed(resp) ==
    \/ ~Has(resp.headers, "Retry-After")
    \/ LET h == resp.headers["Retry-After"]
           digits == IF h # <<>> /\ Head(h) \in {43, 45} THEN Tail(h) ELSE h
       IN  digits = <<>> \/ \E i \in 1..Len(digits) : ~IsDigit(digits[i])

\* the call made for response i was followed by a pause of n seconds and the
\* call was (or is about to be) issued again
PausedThenRetried(i, n) ==
    \/ i = Len(bk_responses) /\ bk_pc = "sleep" /\ bk_wait = n
    \/ /\ i <= Len(bk_sleeps) /\ bk_sleeps[i] = n
       /\ \/ i < Len(bk_calls)
          \/ i = Len(bk_calls) /\ bk_pc = "call"

\* C9: every 429 carrying Retry-After: n is followed by a pause of n seconds
\* and the same call again, however many 429 come in a row; no 429 reaches
\* the caller; the value returned is that of the first answer that is no 429.
C9_RateLimitRetry ==
    /\ \A i \in 1..Len(bk_calls) : bk_calls[i] = bk_request
    /\ \A i \in 1..Len(bk_responses) :
          (IsRateLimited(bk_responses[i]) /\ HeaderIsSeconds(bk_responses[i]))
          => PausedThenRetried(i, DigitsValue(bk_responses[i].headers["Retry-After"]))
    /\ (bk_pc = "raised" /\ bk_result.exc = "SlackApiError")
       => ~IsRateLimited(bk_result.error)
    /\ bk_pc = "returned"
       => /\ bk_responses[Len(bk_responses)].kind = "ok"
          /\ bk_result.value = bk_responses[Len(bk_responses)].data
          /\ \A i \in 1..(Len(bk_responses) - 1) : IsRateLimited(bk_responses[i])

\* two 429 in a row with Retry-After: 2, two pauses of 2 seconds, then a value
C9_Witness ==
    /\ bk_pc = "returned"
    /\ Len(bk_responses) = 3
    /\ bk_sleeps = <<2, 2>>

\* C10: a 429 whose Retry-After is absent or is no integer is followed by a
\* pause of 5 seconds and the call again; backoff_retry does not fail on it.
C10_DefaultPause ==
    \A i \in 1..Len(bk_responses) :
        (IsRateLimited(bk_responses[i]) /\ HeaderAbsentOrMalformed(bk_responses[i]))
        => PausedThenRetried(i, 5)

\* response i of the server is an API error that is no rate limit
IsOtherApiError(i) ==
    /\ bk_responses[i].kind = "error"
    /\ ~(bk_responses[i].has_response /\ bk_responses[i].status_code = 429)

\* C11: an API error other than a 429 (an error without a response included)
\* leaves backoff_retry at once as the very error the call raised: it is the
\* last call issued and no sleep follows it.
C11_OtherErrorsPropagate ==
    \A i \in 1..Len(bk_responses) :
        IsOtherApiError(i)
        => /\ i = Len(bk_responses)
           /\ Len(bk_calls) = i
           /\ Len(bk_sleeps) = i - 1
           /\ bk_pc = "raised"
           /\ bk_result = [kind |-> "raise", exc |-> "SlackApiError",
                           error |-> bk_responses[i]]

\* a 429 was slept on and retried, then a 500 carrying Retry-After ended the
\* call
C11_Witness ==
    /\ Len(bk_responses) = 2
    /\ bk_responses[1].kind = "error" /\ bk_responses[1].status_code = 429
    /\ IsOtherApiError(2)
    /\ bk_responses[2].has_response
    /\ bk_pc = "raised"

(***************************************************************************)
(* Properties of the metadata of one conversation                          *)
(***************************************************************************)
\* the conversation object carries flag k set
FlagSet(conv, k) == k \in DOMAIN conv /\ conv[k] = TRUE

\* the member ids of all pages of the conversations.members answer, in order
RECURSIVE MembersReturned(_)
MembersReturned(pages) ==
    IF pages = <<>> THEN <<>> ELSE Head(pages) \o MembersReturned(Tail(pages))

\* the members a record of the conversation is to hold
MembersExpected ==
    LET m == MembersReturned(md_member_pages)
    IN  IF FlagSet(md_conv, "is_im") /\ Len(m) = 1 THEN <<m[1], m[1]>> ELSE m

\* C14: the record of a direct message whose members endpoint returned the one
\* member u holds members = [u, u], in metadata_lists and in the saved dms
\* list; the record of every other conversation holds the members as the
\* endpoint returned them.
C14_SelfConversation ==
    /\ md_pc \in {"classified", "saved"} => md_meta["members"] = MembersExpected
    /\ md_pc = "saved"
       => \A k \in Range(MetadataTypes) :
             \A i \in 1..Len(md_saved[k]) :
                md_saved[k][i]["id"] = md_conv["id"]
                => md_saved[k][i]["members"] = MembersExpected
    /\ (md_pc = "saved" /\ FlagSet(md_conv, "is_im"))
       => \E i \in 1..Len(md_saved["dms"]) :
             md_saved["dms"][i]["id"] = md_conv["id"]

\* a self direct message was saved with its one member twice
C14_Witness ==
    /\ md_pc = "saved"
    /\ FlagSet(md_conv, "is_im")
    /\ MembersReturned(md_member_pages) = <<U1>>
    /\ \E i \in 1..Len(md_saved["dms"]) : md_saved["dms"][i]["members"] = <<U1, U1>>

\* the list the flags select: dms, else mpims, else groups, else channels
KindExpected ==
    IF FlagSet(md_conv, "is_im") THEN "dms"
    ELSE IF FlagSet(md_conv, "is_mpim") THEN "mpims"
    ELSE IF FlagSet(md_conv, "is_private") THEN "groups"
    ELSE "channels"

\* C15: whatever the flags is_im, is_mpim, is_private, the record is appended
\* to exactly one list, dms before mpims before groups before channels, and
\* the other three lists are unchanged.
C15_KindPrecedence ==
    md_pc \in {"classified", "saved"}
    => /\ md_lists[KindExpected] = Append(md_prior[KindExpected], md_meta)
       /\ \A k \in Range(MetadataTypes) \ {KindExpected} : md_lists[k] = md_prior[k]

\* a private multi-party conversation went to mpims, the lists holding records
\* before
C15_Witness ==
    /\ md_pc = "classified"
    /\ ~FlagSet(md_conv, "is_im")
    /\ FlagSet(md_conv, "is_mpim") /\ FlagSet(md_conv, "is_private")
    /\ md_prior # EmptyLists
    /\ Len(md_lists["mpims"]) = 2

\* the conversation declares a name
HasName == "name" \in DOMAIN md_conv /\ md_conv["name"] # <<>>

\* nothing of the name is left once forbidden characters are replaced and
\* underscores and spaces trimmed
NothingLeftOfName ==
    \A i \in 1..Len(md_conv["name"]) :
        md_conv["name"][i] \in ForbiddenChars \cup {32, 95}

\* C16 as stated: the label of a direct message is its id; of every other
\* kind the sanitized name, or the id when there is no name or when nothing is
\* left of the name.
C16_LabelFallsBackToId ==
    md_pc \in {"classified", "saved"}
    => md_label = IF FlagSet(md_conv, "is_im") THEN md_conv["id"]
                  ELSE IF ~HasName THEN md_conv["id"]
                  ELSE IF NothingLeftOfName THEN md_conv["id"]
                  ELSE sanitize(md_conv["name"])

\* C16 amended: the label of a direct message is its id; of every other kind
\* the sanitized name, which is 'unnamed_channel' when nothing is left of the
\* name, or the sanitized id when there is no name.
C16_LabelDerivation ==
    md_pc \in {"classified", "saved"}
    => md_label = IF FlagSet(md_conv, "is_im") THEN md_conv["id"]
                  ELSE IF ~HasName THEN sanitize(md_conv["id"])
                  ELSE IF NothingLeftOfName THEN UNNAMED_CHANNEL
                  ELSE sanitize(md_conv["name"])

\* a conversation that is no direct message and is named "_" was labelled
C16_Witness ==
    /\ md_pc = "classified"
    /\ ~FlagSet(md_conv, "is_im")
    /\ HasName /\ md_conv["name"] = <<95>>
    /\ md_label = UNNAMED_CHANNEL

\* C18: the record of a direct message has the keys id and members and, only
\* with a created value in the conversation, created, and no other key; the
\* record of any other conversation has name equal to the label of its
\* directory and has creator, topic, purpose, is_archived, is_general only
\* with the value the conversation supplies.
C18_MetadataProjection ==
    md_pc \in {"classified", "saved"}
    => /\ {"id", "members"} \subseteq DOMAIN md_meta
       /\ md_meta["id"] = md_conv["id"]
       /\ "created" \in DOMAIN md_meta
          => "created" \in DOMAIN md_conv /\ md_meta["created"] = md_conv["created"]
       /\ ("created" \in DOMAIN md_conv /\ md_conv["created"] # 0)
          => "created" \in DOMAIN md_meta
       /\ IF FlagSet(md_conv, "is_im")
          THEN DOMAIN md_meta \subseteq {"id", "members", "created"}
          ELSE /\ "name" \in DOMAIN md_meta
               /\ md_meta["name"] = md_label
               /\ DOMAIN md_meta \subseteq {"id", "members", "created", "name", "creator",
                                             "topic", "purpose", "is_archived",
                                             "is_general"}
               /\ \A k \in {"creator", "topic", "purpose", "is_archived", "is_general"} :
                     k \in DOMAIN md_meta
                     => k \in DOMAIN md_conv /\ md_meta[k] = md_conv[k]

\* a direct message carrying a name, a creator and a topic got a record of
\* id, members and created
C18_Witness ==
    /\ md_pc = "classified"
    /\ FlagSet(md_conv, "is_im")
    /\ {"name", "creator", "topic"} \subseteq DOMAIN md_conv
    /\ md_conv["creator"] # <<>>
    /\ DOMAIN md_meta = {"id", "members", "created"}

(***************************************************************************)
(* Properties of sanitize                                                  *)
(***************************************************************************)
\* C17: for every name, sanitize returns a string that is not empty, has no
\* forbidden character, no two underscores in a row, no underscore or space
\* at either end, and at most 200 bytes of UTF-8 made of whole characters; it
\* is 'unnamed_channel' when nothing is left of the name after trimming.
C17_SanitizeResult ==
    sn_pc = "returned"
    => /\ sn_result # <<>>
       /\ \A i \in 1..Len(sn_result) : sn_result[i] \notin ForbiddenChars
       /\ \A i \in 1..(Len(sn_result) - 1) : ~(sn_result[i] = 95 /\ sn_result[i + 1] = 95)
       /\ sn_result[1] \notin {32, 95}
       /\ sn_result[Len(sn_result)] \notin {32, 95}
       /\ Cardinality({i \in 1..Len(sn_result) : sn_result[i] < 128})
          + 2 * Cardinality({i \in 1..Len(sn_result) :
                               sn_result[i] >= 128 /\ sn_result[i] < 2048})
          + 3 * Cardinality({i \in 1..Len(sn_result) :
                               sn_result[i] >= 2048 /\ sn_result[i] < 65536})
          + 4 * Cardinality({i \in 1..Len(sn_result) : sn_result[i] >= 65536}) <= 200
       /\ (\A i \in 1..Len(sn_name) : sn_name[i] \in ForbiddenChars \cup {32, 95})
          => sn_result = UNNAMED_CHANNEL

(***************************************************************************)
(* Properties of the paginated fetches                                     *)
(***************************************************************************)
\* the answer announces a further page
AnnouncesNext(resp) ==
    /\ "response_metadata" \in DOMAIN resp
    /\ "next_cursor" \in DOMAIN resp["response_metadata"]
    /\ resp["response_metadata"]["next_cursor"] # <<>>

\* the items of the first n answers received, page after page
RECURSIVE ItemsReceived(_)
ItemsReceived(n) ==
    IF n = 0 THEN <<>>
    ELSE ItemsReceived(n - 1)
         \o (IF pg_endpoint.key \in DOMAIN pg_responses[n]
             THEN pg_responses[n][pg_endpoint.key] ELSE <<>>)

PhaseOf(p) ==
    CASE p = "load_users" -> 1
      [] p = "get_conversations" -> 2
      [] p \in {"loop", "collect", "metadata", "write_dates"} -> 3
      [] p = "write_metadata" -> 4
      [] p = "done" -> 5
      [] OTHER -> 6

\* C22: in every run the phases follow one another in the order load users,
\* enumerate conversations, process conversations 1..n, merge metadata, done;
\* the loop index advances by one, and only when the conversation it points
\* at has been skipped or has had all its date files written; no metadata
\* file is written before the last conversation has been handled.
C22_PhaseOrder ==
    [][(Running /\ run_no' = run_no)
       => /\ PhaseOf(pc') \in {PhaseOf(pc), PhaseOf(pc) + 1, 6}
          /\ (PhaseOf(pc) = 2 /\ PhaseOf(pc') = 3) => (idx' = 1 /\ pc' = "loop")
          /\ PhaseOf(pc) = 3
             => /\ idx' \in {idx, idx + 1}
                /\ UNCHANGED conversations
                /\ pc \in {"collect", "metadata", "write_dates"}
                   => idx \in 1..Len(conversations)
                /\ idx' = idx + 1
                   => /\ idx <= Len(conversations)
                      /\ pc' = "loop"
                      /\ date_groups' = <<>>
                      /\ IF pc = "loop"
                         THEN skipped_count' = skipped_count + 1 /\ UNCHANGED outdir
                         ELSE processed_count' = processed_count + 1
                /\ PhaseOf(pc') = 4 => (pc = "loop" /\ idx = Len(conversations) + 1)
          /\ meta_files' # meta_files
             => (pc = "write_metadata" /\ idx = Len(conversations) + 1)]_vars

\* a run over two conversations has handled both, the first one skipped and
\* the second one written in two date files, and is done
C22_Witness ==
    /\ pc = "done"
    /\ Len(conversations) = 2
    /\ skipped_count = 1
    /\ processed = <<2>>
    /\ Cardinality(DOMAIN outdir[conv_label(conversations[2])]) = 2

\* the number of records the four per-kind lists hold
RecordCount == SeqSum([i \in 1..Len(MetadataTypes) |-> Len(metadata_lists[MetadataTypes[i]])])

\* C23: whenever the loop stands between two conversations, with idx - 1 of
\* them handled, processed_count + skipped_count = idx - 1 and the four lists
\* hold processed_count records, one for each processed conversation and none
\* for a skipped one; from the end of the loop on, the two counts sum to the
\* number of enumerated conversations.
C23_Counters ==
    /\ pc = "loop"
       => /\ processed_count + skipped_count = idx - 1
          /\ RecordCount = processed_count
          /\ Len(processed) = processed_count
          /\ \A i \in 1..(idx - 1) :
                Cardinality({<<k, j>> \in Range(MetadataTypes) \X (1..MaxConvs + 1) :
                               /\ j <= Len(metadata_lists[k])
                               /\ metadata_lists[k][j]["id"] = conversations[i]["id"]})
                = IF i \in Range(processed) THEN 1 ELSE 0
    /\ pc \in {"write_metadata", "done"}
       => processed_count + skipped_count = Len(conversations)

\* a run has ended with a conversation processed and another one skipped
C23_Witness ==
    pc = "done" /\ processed_count = 1 /\ skipped_count = 1 /\ RecordCount = 1

(***************************************************************************)
(* Properties of _save_messages_by_date                                    *)
(***************************************************************************)
\* the messages of msgs that belong to the date file of date
OfDate(msgs, date) ==
    SelectSeq(msgs, LAMBDA m : TsTruthy(m) /\ timestamp_to_date(m["ts"]) = date)

\* file holds the messages of new, each as often as new does, in
\* non-decreasing order of ts
HoldsExactlySorted(file, new) ==
    /\ Len(file) = Len(new)
    /\ \A i \in 1..Len(new) :
          CountIn(file, LAMBDA m : m = new[i]) = CountIn(new, LAMBDA m : m = new[i])
    /\ \A i, j \in 1..Len(file) :
          i < j => ~FloatLess(ParseFloat(file[j]["ts"]), ParseFloat(file[i]["ts"]))

\* C24: when the processing of a conversation ends, every date file whose
\* date occurs among the messages just collected (and whose write was not
\* reported as failed) holds exactly the collected messages of that date in
\* order of ts, whatever the file held before.
C24_DateFilesOverwritten ==
    [][(pc \in {"metadata", "write_dates"} /\ processed_count' = processed_count + 1)
       => LET label == conv_label(conversations[idx])
          IN  \A i \in 1..Len(messages) :
                 TsTruthy(messages[i])
                 => LET date == timestamp_to_date(messages[i]["ts"])
                    IN  /\ <<label, date>> \notin warnings'
                           => /\ date \in DOMAIN outdir'[label]
                              /\ HoldsExactlySorted(outdir'[label][date],
                                                    OfDate(messages, date))]_vars

\* two conversations of one label have been processed one after the other:
\* the file of the date they share held the messages of the first and now
\* holds the message of the second alone
C24_Witness ==
    /\ pc = "done"
    /\ processed = <<1, 2>>
    /\ conv_label(conversations[1]) = conv_label(conversations[2])
    /\ slack.history[conversations[1]["id"]] = HistThread
    /\ slack.history[conversations[2]["id"]] = HistOne
    /\ outdir[conv_label(conversations[2])][timestamp_to_date(TsDay2b)]
       = <<Msg(TsDay2b, 1)>>

\* C25: a date file whose write fails is reported and passed over: the
\* process does not end, the date files still to be written stay queued and
\* each later one is written, after the last one the conversation counts as
\* processed and the loop moves to the next conversation, and what a run that
\* reaches its end has saved in the four metadata files is the merge of the
\* records of all its processed conversations.
C25_WriteFailureNotFatal ==
    /\ [][(warnings' # warnings /\ run_no' = run_no)
          => /\ date_groups' = Tail(date_groups)
             /\ UNCHANGED <<conversations, metadata_lists, skipped_count, meta_files>>
             /\ IF Tail(date_groups) = <<>>
                THEN /\ pc' = "loop"
                     /\ idx' = idx + 1
                     /\ processed_count' = processed_count + 1
                ELSE /\ pc' = "write_dates"
                     /\ UNCHANGED <<idx, processed_count>>]_vars
    /\ [][(pc = "write_dates" /\ warnings # {} /\ warnings' = warnings
             /\ run_no' = run_no)
          => /\ Head(date_groups).date \in DOMAIN outdir'[conv_label(conversations[idx])]
             /\ outdir'[conv_label(conversations[idx])][Head(date_groups).date]
                = Head(date_groups).msgs]_vars
    /\ []((pc = "done" /\ warnings # {})
          => /\ processed_count + skipped_count = Len(conversations)
             /\ RecordCount = processed_count
             /\ \A k \in Range(MetadataTypes) :
                   /\ meta_files[k].exists /\ meta_files[k].valid
                   /\ IdsOf(meta_files[k].data)
                      = IdsOf(prev.meta_files[k].data) \cup IdsOf(metadata_lists[k]))

\* the write of the first date file of the first conversation failed; its
\* second date file was written, the next conversation was processed and
\* written, and the run ended with the records of both saved
C25_Witness ==
    /\ pc = "done"
    /\ processed = <<1, 2>>
    /\ LET first == conv_label(conversations[1])
           second == conv_label(conversations[2])
       IN  /\ first # second
           /\ warnings = {<<first, timestamp_to_date(TsDay1)>>}
           /\ timestamp_to_date(TsDay2b) \in DOMAIN outdir[first]
           /\ outdir[first][timestamp_to_date(TsDay2b)] # Truncated
           /\ DOMAIN outdir[second] # {}
    /\ SeqSum([i \in 1..Len(MetadataTypes) |-> Len(meta_files[MetadataTypes[i]].data)]) = 2

(***************************************************************************)
(* Properties of _save_metadata                                            *)
(***************************************************************************)
\* the file can be read as a list of records
Parses(file) == file.exists /\ file.valid

\* list is in strictly ascending order of id
SortedById(list) ==
    \A i \in 1..(Len(list) - 1) : StrLess(list[i]["id"], list[i + 1]["id"])

\* C26: a metadata file that is absent or does not parse when _save_metadata
\* loads it does not end the run: the merge goes on to the writing loop, and
\* a run that reaches its end has written that file with exactly the newly
\* classified records of its kind in order of id, and every other file with
\* the records of its own prior content and the new ones of its kind.
C26_UnreadableMetadataIsEmpty ==
    /\ [][(pc = "loop" /\ idx > Len(conversations) /\ run_no' = run_no
             /\ pc' # "killed")
          => pc' = "write_metadata"]_vars
    /\ [][(pc = "write_metadata" /\ pc' = "done")
          => \A k \in Range(MetadataTypes) :
                LET was == prev.meta_files[k]
                    now == meta_files'[k]
                    new == metadata_lists[k]
                IN  /\ Parses(now)
                    /\ SortedById(now.data)
                    /\ IF ~Parses(was)
                       THEN /\ Len(now.data) = Len(new)
                            /\ Range(now.data) = Range(new)
                       ELSE /\ IdsOf(now.data) = IdsOf(was.data) \cup IdsOf(new)
                            /\ \A i \in 1..Len(now.data) :
                                  now.data[i] = IF now.data[i]["id"] \in IdsOf(new)
                                                THEN LastWithId(new, now.data[i]["id"])
                                                ELSE LastWithId(was.data, now.data[i]["id"])]_vars

\* a second run found one metadata file unreadable and another one holding a
\* record of a conversation it then skipped: it wrote the first with its new
\* record alone and kept the record in the second
C26_Witness ==
    /\ pc = "done"
    /\ run_no = 2
    /\ \E k, j \in Range(MetadataTypes) :
          /\ k # j
          /\ prev.meta_files[k].exists /\ ~prev.meta_files[k].valid
          /\ metadata_lists[k] # <<>>
          /\ meta_files[k].data = metadata_lists[k]
          /\ Parses(prev.meta_files[j])
          /\ prev.meta_files[j].data # <<>>
          /\ metadata_lists[j] = <<>>
          /\ meta_files[j].data = prev.meta_files[j].data

(***************************************************************************)
(* conv_label against its documentation                                    *)
(***************************************************************************)
\* C27: as the docstring of conv_label says, the label of a DM or of a group
\* DM (is_im or is_mpim) is the channel id, and the label of a regular
\* channel is its (sanitized) name, or its id when it has no name.
C27_LabelAsDocumented ==
    md_pc \in {"classified", "saved"}
    => md_label = IF FlagSet(md_conv, "is_im") \/ FlagSet(md_conv, "is_mpim")
                  THEN md_conv["id"]
                  ELSE IF HasName THEN sanitize(md_conv["name"])
                  ELSE sanitize(md_conv["id"])

(***************************************************************************)
(* What a run leaves of every conversation                                 *)
(***************************************************************************)
\* the messages the upstream holds for the conversation of id
UpstreamMessages(id) == collect_messages(slack.history[id], slack.replies[id]).msgs

\* C29: when a non-forced run that started on an empty output root is done
\* (no write having failed), every enumerated conversation holding a message
\* with a valid ts has been processed, each such message is in a date file of
\* the conversation's directory, and the conversation's record is in the
\* metadata file of its kind; also when two conversations share a label.
C29_EveryConversationBackedUp ==
    (run_no = 1 /\ ~force /\ pc = "done" /\ faults \notin {"disk", "damage"})
    => \A i \in 1..Len(conversations) :
          LET conv == conversations[i]
              msgs == UpstreamMessages(conv["id"])
              label == conv_label(conv)
          IN  (\E n \in 1..Len(msgs) : ValidTs(msgs[n]))
              => /\ i \in Range(processed)
                 /\ label \in DOMAIN outdir
                 /\ \A n \in 1..Len(msgs) :
                       ValidTs(msgs[n])
                       => \E date \in DOMAIN outdir[label] :
                             msgs[n] \in Range(outdir[label][date])
                 /\ conv["id"] \in IdsOf(meta_files[MetadataKind(conv)].data)

\* the ids of the conversations processed in the run
ProcessedIds == {conversations[processed[n]]["id"] : n \in 1..Len(processed)}

\* C30: when a run ends, each metadata file that parsed when the run loaded
\* it holds every id it held then, and the record of every id the run did not
\* process is the one it held.
C30_MetadataNeverShrinks ==
    [][(pc = "write_metadata" /\ pc' = "done")
       => \A k \in Range(MetadataTypes) :
             LET was == prev.meta_files[k]
                 now == meta_files'[k]
             IN  Parses(was)
                 => /\ IdsOf(was.data) \subseteq IdsOf(now.data)
                    /\ \A n \in 1..Len(was.data) :
                          was.data[n]["id"] \notin ProcessedIds
                          => was.data[n] \in Range(now.data)]_vars

\* a second run for the first conversation alone has processed it again and
\* has ended: the file of its kind holds its record, and another file holds,
\* as before, the record of the conversation this run did not enumerate
C30_Witness ==
    /\ pc = "done"
    /\ run_no = 2
    /\ prev.outcome = "done"
    /\ prev.conversation_id = <<>>
    /\ conversation_id # <<>>
    /\ processed = <<1>>
    /\ \E k, j \in Range(MetadataTypes) :
          /\ prev.meta_files[k].data # <<>>
          /\ IdsOf(prev.meta_files[k].data) \cap ProcessedIds = {}
          /\ meta_files[k].data = prev.meta_files[k].data
          /\ IdsOf(meta_files[j].data) = ProcessedIds

(***************************************************************************)
(* Properties of add_tokens_to_files.py                                    *)
(***************************************************************************)
\* the host of url: what follows the first "//" up to the next "/", "?", "#"
HostOf(url) ==
    IF ~StrIn(<<47, 47>>, url) THEN <<>>
    ELSE LET i == CHOOSE i \in 1..(Len(url) - 1) :
                     /\ url[i] = 47 /\ url[i + 1] = 47
                     /\ \A j \in 1..(i - 1) : ~(url[j] = 47 /\ url[j + 1] = 47)
             rest == SubSeq(url, i + 2, Len(url))
             ends == {j \in 1..Len(rest) : rest[j] \in {47, 63, 35}}
         IN  IF ends = {} THEN rest
             ELSE SubSeq(rest, 1, (CHOOSE j \in ends : \A e \in ends : j <= e) - 1)

IsSlackFileUrl(url) == HostOf(url) = FILES_SLACK_COM

\* the query parameters of url as (name, value) pairs, the value empty for a
\* parameter given without one
AllPairs(url) ==
    LET pieces == SelectSeq(StrSplit(urlparse(url).query, 38), LAMBDA x : x # <<>>)
    IN  [i \in 1..Len(pieces) |->
            LET nv == SplitOnce(pieces[i], 61)
            IN  <<unquote(PlusToSpace(nv.before)), unquote(PlusToSpace(nv.after))>>]

CarriesToken(url) == \E i \in 1..Len(AllPairs(url)) : AllPairs(url)[i][1] = TOKEN_KEY

\* out is url with the parameter token=token added: the same scheme (in any
\* case), host, path and fragment, and the same query parameters, each as
\* often, with one more token=token
TokenAdded(url, out, token) ==
    LET a == urlparse(url)
        b == urlparse(out)
        pa == AllPairs(url)
        pb == AllPairs(out)
    IN  /\ b.head = a.head
        /\ b.fragment = a.fragment
        /\ \A p \in Range(pa) \cup Range(pb) \cup {<<TOKEN_KEY, token>>} :
              CountIn(pb, LAMBDA x : x = p)
              = CountIn(pa, LAMBDA x : x = p) + (IF p = <<TOKEN_KEY, token>> THEN 1 ELSE 0)

\* the URL fields of the file objects of a message, as (index, key) pairs
UrlFields(message) ==
    IF "files" \in DOMAIN message.d /\ message.d["files"].py = "list"
    THEN {<<i, k>> \in (1..Len(message.d["files"].items)) \X UrlKeys :
             /\ message.d["files"].items[i].py = "dict"
             /\ k \in DOMAIN message.d["files"].items[i].d}
    ELSE {}

UrlAt(message, f) == message.d["files"].items[f[1]].d[f[2]]

\* C28: process_message leaves unchanged every URL that is empty, is no
\* files.slack.com URL or carries a token already, and adds the parameter
\* token to every other URL; a second process_message with the same token
\* changes nothing and returns False; process_json_file with dry_run does not
\* write the file.
C28_TokenPatching ==
    /\ Len(tk_messages) >= 2
       => \A f \in UrlFields(tk_messages[1]) :
             LET url == UrlAt(tk_messages[1], f)
                 out == UrlAt(tk_messages[2], f)
             IN  IF url = <<>> \/ ~IsSlackFileUrl(url) \/ CarriesToken(url)
                 THEN out = url
                 ELSE TokenAdded(url, out, tk_token)
    /\ Len(tk_messages) = 3
       => tk_flags[2] = FALSE /\ tk_messages[3] = tk_messages[2]
    /\ (tk_pc = "returned" /\ tk_dry_run)
       => ~tk_result.written /\ tk_disk = tk_file

(***************************************************************************)
(* Collection before writing, and the frame of a run                       *)
(***************************************************************************)
\* everything _process_conversation fetches for the current conversation has
\* been requested, and no request raised
FetchedAll ==
    LET id == CurrentConv["id"]
        history == iter_history(slack.history[id])
    IN  /\ <<"conversations.history", id>> \in api_log
        /\ (\E i \in 1..Len(history) : IsThreadRoot(history[i]))
           => <<"conversations.replies", id>> \in api_log
        /\ <<"conversations.members", id>> \in api_log
        /\ api_error = NoError

\* this step writes no date file: it leaves the output directory as it is or
\* adds an empty conversation directory to it
WritesNoDateFile ==
    \/ outdir' = outdir
    \/ \E l \in DOMAIN outdir' \ DOMAIN outdir : outdir' = outdir @@ (l :> EmptyDict)

\* the conversation the previous run was collecting when it was killed or failed
Interrupted == slack.info[prev.collecting]

\* C31: a date file is written only when history, thread replies and members
\* of the conversation have all been fetched; a run killed or failed during
\* the collection of a conversation has written no date file for it, and the
\* next run without force does not take that conversation for backed up and
\* does not skip it.
C31_CollectBeforeWrite ==
    /\ [][~WritesNoDateFile => pc = "write_dates" /\ FetchedAll]_vars
    /\ [][(pc \in {"collect", "metadata"}) => (outdir' = outdir)]_vars
    /\ [](run_no = 2 /\ ~force /\ prev.collecting # <<>>
            => ~is_already_backed_up(prev.outdir, conv_label(Interrupted)))
    /\ [][run_no = 2 /\ ~force /\ prev.collecting # <<>> /\ pc = "loop"
            /\ idx <= Len(conversations)
            /\ CurrentConv["id"] = prev.collecting
          => (skipped_count' = skipped_count)]_vars

\* the date files in the directory with this label, none if there is no such
\* directory
FilesOf(dir, label) == IF label \in DOMAIN dir THEN dir[label] ELSE EmptyDict

\* the dates of the messages collected for the current conversation
CollectedDates ==
    LET split == date_groups_to_save(messages)
    IN  IF split.raised THEN {}
        ELSE {split.groups[i].date : i \in 1..Len(split.groups)}

\* C32: no step deletes a directory or a file; a step that changes the
\* output directory belongs to the processing of one conversation, leaves
\* the files of every other conversation as they are, and in the directory of
\* that conversation writes only files of dates that occur among the
\* messages just collected.
C32_FrameOfRun ==
    [][/\ DOMAIN outdir \subseteq DOMAIN outdir'
       /\ \A l \in DOMAIN outdir : DOMAIN outdir[l] \subseteq DOMAIN outdir'[l]
       /\ outdir' # outdir
          => /\ pc \in {"loop", "write_dates"}
             /\ idx \in 1..Len(conversations)
             /\ \A i \in 1..Len(slack.conv_pages) :
                   LET other == slack.conv_pages[i][1]
                   IN  other["id"] # CurrentConv["id"]
                       => FilesOf(outdir', conv_label(other))
                          = FilesOf(outdir, conv_label(other))
             /\ \A d \in DOMAIN outdir'[CurrentLabel] :
                   \/ /\ CurrentLabel \in DOMAIN outdir
                      /\ d \in DOMAIN outdir[CurrentLabel]
                      /\ outdir'[CurrentLabel][d] = outdir[CurrentLabel][d]
                   \/ d \in CollectedDates]_vars

(***************************************************************************)
(* Termination of a run                                                    *)
(***************************************************************************)
\* the server has just answered 429 with a Retry-After that can be slept on
SleptOn429 ==
    /\ IsRateLimited(lv_answer)
    /\ RetryAfterSeconds(lv_answer.headers).ok
    /\ RetryAfterSeconds(lv_answer.headers).val >= 0

\* a fetch has been told of a next page it has yet to ask for
NextPageAnnounced == CursorTruthy(lv_cursor) \/ CursorTruthy(lv_hist_next)

\* C33: if the server again and again answers something other than 429, again
\* and again a fetch is through with its last page, and no call or sleep
\* raises, then the run reaches Done with the metadata written; and if from
\* some time on every answer is a 429 that can be slept on, the run never
\* ends, neither Done nor by an exception.
C33_Termination ==
    /\ ([]<>~IsRateLimited(lv_answer) /\ []<>~NextPageAnnounced /\ [](lv_pc # "raised"))
       => <>(lv_pc = "done" /\ lv_written)
    /\ <>[]SleptOn429 => [](lv_pc \notin {"done", "raised"})

\* a run over MaxConvs conversations has reached Done after sleeping on a 429
C33_Witness ==
    /\ lv_pc = "done" /\ lv_written
    /\ lv_total = MaxConvs /\ lv_idx > lv_total
    /\ lv_slept

(***************************************************************************)
(* Properties of the status checker                                        *)
(***************************************************************************)
\* the checks run_all_checks has run
ChecksRun == ck_results["checks"]

\* C34: whatever the four API calls do, what run_all_checks returns holds a
\* summary whose successful and failed add up to total_checks and whose
\* overall_status is "OK" exactly when every check that was run succeeded,
\* and main reads the status from it to choose the exit status.
C34_SummaryAlways ==
    /\ ck_pc \in {"returned", "exit_0", "exit_1", "key_error"}
       => /\ Has(ck_results, "summary")
          /\ LET summary == ck_results["summary"]
             IN  /\ summary.total_checks = Len(ChecksRun)
                 /\ summary.successful + summary.failed = summary.total_checks
                 /\ summary.overall_status = "OK"
                    <=> \A i \in 1..Len(ChecksRun) : ChecksRun[i].result.success
    /\ ck_pc # "key_error"
    /\ ck_pc = "exit_0" => ck_results["summary"].overall_status = "OK"
    /\ ck_pc = "exit_1" => ck_results["summary"].overall_status # "OK"

====
